---- MODULE Spec2Model ----
(***************************************************************************)
(* Model of the suppress-checker audit pipeline.                           *)
(*                                                                         *)
(* DefaultAuditor (pkg/auditor/auditor.go) holds four registries and runs  *)
(* Audit as Scan -> Parse -> Validate -> Notify.  The plug-ins it calls    *)
(* are modelled with the repository's own implementations: the walk of     *)
(* FileSystemScanner.Scan (one cancellation check per directory entry),    *)
(* the loop of ExpiryValidator.Validate (one cancellation check per        *)
(* Suppression) and a notifier whose delivery succeeds or fails.  What the *)
(* file system holds, what a parser answers, which issues one Suppression  *)
(* gets and whether a delivery succeeds are inputs, drawn when the code    *)
(* asks for them.                                                          *)
(***************************************************************************)
EXTENDS Integers, Sequences, FiniteSets, TLC

\* ---------------------------------------------------------------- bounds
MaxScanners   == 2   \* registered scanners
MaxParsers    == 2   \* registered parsers
MaxValidators == 2   \* registered validators
MaxNotifiers  == 2   \* registered notifiers
MaxFound      == 2   \* paths one Scan call returns
MaxSupps      == 2   \* Suppressions in one parsed file
MaxValidatorTypes == 1   \* entries of the validator-type filter
MaxNotifierTypes  == 2   \* entries of the notifier-type filter

\* ------------------------------------------------------------ input sets
Paths == {"a/suppressions.xml", "b/.tryvi-ignore"}
ValidatorTypeNames == {"expiry", "custom"}
NotifierTypeNames  == {"teams", "slack"}

SeqsUpTo(S, n) == UNION {[1..k -> S] : k \in 0..n}

\* A run varies the inputs of one stage of the pipeline up to the bounds and
\* keeps the inputs of the other stages small; scope holds the limits of
\* the run: the number of registered components of each kind, the type
\* names they may carry, the lengths of the two type filters, the number of
\* paths one Scan call returns and of Suppressions one file holds, and
\* whether the caller may cancel the context (the two stages that look at
\* the context are the scan and the validation).
Scope(ns, nf, np, nq, nv, vt, vf, nn, nt, nfl, cn) ==
    [scanners |-> ns, found |-> nf, parsers |-> np, supps |-> nq,
     validators |-> nv, vtypes |-> vt, vfilter |-> vf,
     notifiers |-> nn, ntypes |-> nt, nfilter |-> nfl, cancel |-> cn]

ScanScope ==
    Scope(MaxScanners, MaxFound, 1, 0, 0, {"expiry"}, 0, 0, {"teams"}, 0, TRUE)
ParseScope ==
    Scope(1, 2, MaxParsers, 1, 1, {"expiry"}, 0, 1, {"teams"}, 0, FALSE)
ValidateScope ==
    Scope(1, 1, 1, MaxSupps, MaxValidators, ValidatorTypeNames,
          MaxValidatorTypes, 1, {"teams"}, 0, TRUE)
NotifyScope ==
    Scope(1, 1, 1, 1, 1, {"expiry"}, 0, MaxNotifiers, NotifierTypeNames,
          MaxNotifierTypes, FALSE)
Scopes == {ScanScope, ParseScope, ValidateScope, NotifyScope}

\* AuditConfig: the fields Audit reads (RootDirectory only names the tree)
AuditConfigs(sc) ==
    [DryRun : BOOLEAN,
     ValidatorTypes : SeqsUpTo(ValidatorTypeNames, sc.vfilter),
     NotifierTypes  : SeqsUpTo(NotifierTypeNames, sc.nfilter)]

\* models.Severity
SeverityError   == "error"
SeverityWarning == "warning"

\* ----------------------------------------------------------------- state
VARIABLES
    scope,             \* the limits of the inputs of this run
    scanners,          \* DefaultAuditor.scanners: sequence of scanner ids
    parsers,           \* DefaultAuditor.parsers: sequence of parser ids
    validators,        \* DefaultAuditor.validators: ValidationType() of each
    notifiers,         \* DefaultAuditor.notifiers: [NotifierType, IsConfigured]
    pc,                \* position of the Audit call
    config,            \* the AuditConfig of the call
    ctxDone,           \* ctx.Done() is closed
    report,            \* the AuditReport under construction
    si,                \* scanFiles: index of the current scanner
    walk,              \* Scan: the wanted files of the tree, in walk order
    wi,                \* Scan: entries visited; entry 0 is the root itself
    foundFiles,        \* Scan: files found by the current walk
    allFiles,          \* scanFiles: de-duplicated result
    fi,                \* parseFiles: index into filePaths
    suppressionFiles,  \* parseFiles: parsed files
    validatorsToRun,   \* validateSuppressions: indices of selected validators
    vi,                \* validateSuppressions: index into validatorsToRun
    sk,                \* Validate: number of Suppressions already validated
    issues,            \* Validate: issues of the current validator
    allIssues,         \* validateSuppressions: accumulated issues
    notifiersToUse,    \* sendNotifications: indices of selected notifiers
    ni,                \* sendNotifications: index into notifiersToUse
    retReport,         \* Audit's returned report: <<>> is nil, <<r>> is r
    retErr,            \* Audit's returned error: "" is nil
    calls,             \* history: the plug-in calls made, in order
    cancelAt           \* history: where the call was when ctx was cancelled

vars == <<scope, scanners, parsers, validators, notifiers, pc, config, ctxDone,
          report, si, foundFiles, allFiles, fi, suppressionFiles,
          validatorsToRun, vi, sk, issues, allIssues, notifiersToUse, ni,
          retReport, retErr, calls, cancelAt, walk, wi>>

registries == <<scope, scanners, parsers, validators, notifiers>>
scanVars   == <<si, walk, wi, foundFiles, allFiles>>
parseVars  == <<fi, suppressionFiles>>
validVars  == <<validatorsToRun, vi, sk, issues, allIssues>>
notifVars  == <<notifiersToUse, ni>>
retVars    == <<retReport, retErr>>
history    == <<calls, cancelAt>>

\* one entry of the call history
Call(op, who, path, val) == [op |-> op, who |-> who, path |-> path, val |-> val]

\* ------------------------------------------------------------- data model
\* models.AuditReport as NewDefaultAuditor/Audit create it
EmptyReport ==
    [TotalFiles |-> 0, TotalSuppressions |-> 0, Issues |-> <<>>,
     FilesScanned |-> <<>>]

\* the config variable before Audit is called
NoConfig == [DryRun |-> FALSE, ValidatorTypes |-> <<>>, NotifierTypes |-> <<>>]

\* AuditReport.HasIssues
HasIssues(r) == Len(r.Issues) > 0

RECURSIVE SumSuppressions(_)
\* Audit: the loop that counts the Suppressions of the parsed files
SumSuppressions(files) ==
    IF files = <<>> THEN 0
    ELSE Len(Head(files).Suppressions) + SumSuppressions(Tail(files))

\* element membership in a sequence
InSeq(x, s) == \E i \in 1..Len(s) : s[i] = x

\* ------------------------------------------------------ strings and time
\* A string whose characters the code inspects is a sequence of
\* one-character strings.
Digits == {"0", "1", "2", "3", "4", "5", "6", "7", "8", "9"}

DigitValue(c) ==
    CASE c = "0" -> 0 [] c = "1" -> 1 [] c = "2" -> 2 [] c = "3" -> 3
      [] c = "4" -> 4 [] c = "5" -> 5 [] c = "6" -> 6 [] c = "7" -> 7
      [] c = "8" -> 8 [] c = "9" -> 9

\* time.isDigit, with the first character at index 1
isDigit(s, i) == i <= Len(s) /\ s[i] \in Digits

RECURSIVE TrimLeft(_)
TrimLeft(s) ==
    IF s # <<>> /\ Head(s) \in {" ", "\t", "\n", "\r"} THEN TrimLeft(Tail(s))
    ELSE s

RECURSIVE TrimRight(_)
TrimRight(s) ==
    IF s # <<>> /\ s[Len(s)] \in {" ", "\t", "\n", "\r"}
       THEN TrimRight(SubSeq(s, 1, Len(s) - 1))
    ELSE s

\* strings.TrimSpace
TrimSpace(s) == TrimRight(TrimLeft(s))

\* the formats with the last one read month first
formatsMonthFirst ==
    << <<"2006", "-", "01", "-", "02">>,
       <<"2006", "-", "01", "-", "02", "Z">>,
       <<"2006", "-", "01", "-", "02", "T", "15", ":", "04", ":", "05", "Z">>,
       <<"2006", "-", "01", "-", "02", "T", "15", ":", "04", ":", "05", "Z07:00">>,
       <<"2006", "-", "01", "-", "02", "T", "15", ":", "04", ":", "05">>,
       <<"2006", "/", "01", "/", "02">>,
       <<"01", "/", "02", "/", "2006">>,
       <<"01", "-", "02", "-", "2006">> >>

\* time.Parse cuts a layout into chunks: the reference-time elements and
\* the literal characters between them.  The formats of parseDate, in the
\* order it tries them:
formats ==
    << <<"2006", "-", "01", "-", "02">>,
       <<"2006", "-", "01", "-", "02", "Z">>,
       <<"2006", "-", "01", "-", "02", "T", "15", ":", "04", ":", "05", "Z">>,
       <<"2006", "-", "01", "-", "02", "T", "15", ":", "04", ":", "05", "Z07:00">>,
       <<"2006", "-", "01", "-", "02", "T", "15", ":", "04", ":", "05">>,
       <<"2006", "/", "01", "/", "02">>,
       <<"01", "/", "02", "/", "2006">>,
       <<"02", "-", "01", "-", "2006">> >>

\* the state of one time.Parse call: what is left of the value and the
\* fields read so far (zone is the zone offset in seconds)
ParseStart(value) ==
    [ok |-> TRUE, value |-> value, year |-> 0, month |-> 1, day |-> 1,
     hour |-> 0, min |-> 0, sec |-> 0, nsec |-> 0, zone |-> 0]

\* time.getnum: a number of two digits, or of one digit when not fixed;
\* n is -1 when there is none, len the number of characters it takes
getnum(s, fixed) ==
    IF ~isDigit(s, 1) THEN [n |-> -1, len |-> 0]
    ELSE IF ~isDigit(s, 2)
            THEN IF fixed THEN [n |-> -1, len |-> 0]
                 ELSE [n |-> DigitValue(s[1]), len |-> 1]
    ELSE [n |-> DigitValue(s[1]) * 10 + DigitValue(s[2]), len |-> 2]

Drop(s, k) == SubSeq(s, k + 1, Len(s))

RECURSIVE DigitRun(_, _)
\* the number of digits of s from index i on
DigitRun(s, i) == IF isDigit(s, i) THEN 1 + DigitRun(s, i + 1) ELSE 0

RECURSIVE Nanos(_, _, _)
\* time.parseNanoseconds: the first nine digits after the separator, scaled
Nanos(s, i, left) ==
    IF left = 0 THEN 0
    ELSE (IF isDigit(s, i) THEN DigitValue(s[i]) ELSE 0)
             * (10 ^ (left - 1)) + Nanos(s, i + 1, left - 1)

\* time.Parse: one chunk of the layout applied to the state
ParseChunk(chunk, st) ==
    LET v == st.value
        bad == [st EXCEPT !.ok = FALSE]
        two == getnum(v, TRUE)
    IN  CASE chunk = "2006" ->
               IF Len(v) >= 4 /\ \A i \in 1..4 : isDigit(v, i)
                  THEN [st EXCEPT !.value = Drop(v, 4),
                                  !.year = DigitValue(v[1]) * 1000
                                         + DigitValue(v[2]) * 100
                                         + DigitValue(v[3]) * 10
                                         + DigitValue(v[4])]
                  ELSE bad
          [] chunk = "01" ->
               IF two.n >= 1 /\ two.n <= 12
                  THEN [st EXCEPT !.value = Drop(v, 2), !.month = two.n]
                  ELSE bad
          [] chunk = "02" ->
               IF two.n >= 0
                  THEN [st EXCEPT !.value = Drop(v, 2), !.day = two.n]
                  ELSE bad
          [] chunk = "15" ->
               LET h == getnum(v, FALSE)
               IN  IF h.n >= 0 /\ h.n < 24
                      THEN [st EXCEPT !.value = Drop(v, h.len), !.hour = h.n]
                      ELSE bad
          [] chunk = "04" ->
               IF two.n >= 0 /\ two.n < 60
                  THEN [st EXCEPT !.value = Drop(v, 2), !.min = two.n]
                  ELSE bad
          [] chunk = "05" ->
               IF two.n >= 0 /\ two.n < 60
                  THEN LET w == Drop(v, 2)
                       IN  IF Len(w) >= 2 /\ w[1] \in {".", ","} /\ isDigit(w, 2)
                              THEN [st EXCEPT
                                      !.value = Drop(w, 1 + DigitRun(w, 2)),
                                      !.sec = two.n,
                                      !.nsec = Nanos(w, 2, 9)]
                              ELSE [st EXCEPT !.value = w, !.sec = two.n]
                  ELSE bad
          [] chunk = "Z07:00" ->
               IF Len(v) >= 1 /\ v[1] = "Z"
                  THEN [st EXCEPT !.value = Drop(v, 1), !.zone = 0]
               ELSE IF Len(v) < 6 \/ v[4] # ":" THEN bad
               ELSE LET hr == getnum(SubSeq(v, 2, 3), TRUE).n
                        mm == getnum(SubSeq(v, 5, 6), TRUE).n
                        off == (hr * 60 + mm) * 60
                    IN  IF hr < 0 \/ mm < 0 \/ hr > 24 \/ mm > 60
                           \/ v[1] \notin {"+", "-"}
                           THEN bad
                           ELSE [st EXCEPT
                                   !.value = Drop(v, 6),
                                   !.zone = IF v[1] = "-" THEN 0 - off ELSE off]
          [] OTHER ->
               IF v # <<>> /\ Head(v) = chunk
                  THEN [st EXCEPT !.value = Tail(v)]
                  ELSE bad

RECURSIVE ParseChunks(_, _)
ParseChunks(layout, st) ==
    IF ~st.ok \/ layout = <<>> THEN st
    ELSE ParseChunks(Tail(layout), ParseChunk(Head(layout), st))

isLeap(year) == year % 4 = 0 /\ (year % 100 # 0 \/ year % 400 = 0)

\* time.daysIn
daysIn(month, year) ==
    IF month = 2 THEN (IF isLeap(year) THEN 29 ELSE 28)
    ELSE IF month \in {4, 6, 9, 11} THEN 30 ELSE 31

\* the number of the day year-month-day, counted from 1970-01-01
DayNumber(year, month, day) ==
    LET y   == IF month <= 2 THEN year - 1 ELSE year
        era == y \div 400
        yoe == y - era * 400
        mp  == IF month > 2 THEN month - 3 ELSE month + 9
        doy == (153 * mp + 2) \div 5 + day - 1
        doe == yoe * 365 + yoe \div 4 - yoe \div 100 + doy
    IN  era * 146097 + doe - 719468

\* time.Time as the day number, the second of the day and the nanosecond
Instant(day, sec, nsec) == [day |-> day, sec |-> sec, nsec |-> nsec]

\* time.Date(...) of the parsed fields in UTC, moved by the zone offset
DateOf(st) ==
    LET s == st.hour * 3600 + st.min * 60 + st.sec - st.zone
    IN  Instant(DayNumber(st.year, st.month, st.day) + (s \div 86400),
                s % 86400, st.nsec)

\* time.Parse(layout, value): <<t>> when the value parses, <<>> otherwise
TimeParse(layout, value) ==
    LET st == ParseChunks(layout, ParseStart(value))
    IN  IF st.ok /\ st.value = <<>>
           /\ st.day >= 1 /\ st.day <= daysIn(st.month, st.year)
           THEN <<DateOf(st)>>
           ELSE <<>>

RECURSIVE TryFormats(_, _)
TryFormats(fs, dateStr) ==
    IF fs = <<>> THEN <<>>
    ELSE LET parsed == TimeParse(Head(fs), TrimSpace(dateStr))
         IN  IF parsed # <<>> THEN parsed ELSE TryFormats(Tail(fs), dateStr)

\* ExpiryValidator.parseDate: <<t>> of the first format that parses the
\* trimmed string, <<>> for the error
parseDate(dateStr) == TryFormats(formats, TrimSpace(dateStr))

\* Time.After
After(t, u) ==
    \/ t.day > u.day
    \/ t.day = u.day /\ t.sec > u.sec
    \/ t.day = u.day /\ t.sec = u.sec /\ t.nsec > u.nsec

\* the largest time.Duration, 2^63-1 ns, in whole days
MaxDurationDays == 106751

\* DaysBetween that counts the days begun, both end days included
DaysBetweenInclusive(t, u) == t.day - u.day + 1

\* int(t.Sub(u).Hours() / 24): Sub saturates at the largest Duration and
\* the conversion to int rounds toward zero
DaysBetween(t, u) ==
    LET n1 == t.nsec - u.nsec
        s1 == t.sec - u.sec - (IF n1 < 0 THEN 1 ELSE 0)
        n  == IF n1 < 0 THEN n1 + 1000000000 ELSE n1
        d  == t.day - u.day - (IF s1 < 0 THEN 1 ELSE 0)
        s  == IF s1 < 0 THEN s1 + 86400 ELSE s1
        towardZero == IF d < 0 /\ (s > 0 \/ n > 0) THEN d + 1 ELSE d
    IN  IF towardZero > MaxDurationDays THEN MaxDurationDays
        ELSE IF towardZero < 0 - MaxDurationDays THEN 0 - MaxDurationDays
        ELSE towardZero

\* cancelAt while the context is not cancelled
NotCancelled == [pc |-> "", checks |-> 0]

\* ------------------------------------------------------------------ Init
\* NewDefaultAuditor: four empty registries; no Audit call in progress
Init ==
    /\ scope \in Scopes
    /\ scanners = <<>> /\ parsers = <<>> /\ validators = <<>> /\ notifiers = <<>>
    /\ pc = "idle"
    /\ config = NoConfig
    /\ ctxDone = FALSE
    /\ report = EmptyReport
    /\ si = 0 /\ walk = <<>> /\ wi = 0 /\ foundFiles = <<>> /\ allFiles = <<>>
    /\ fi = 0 /\ suppressionFiles = <<>>
    /\ validatorsToRun = <<>> /\ vi = 0 /\ sk = 0 /\ issues = <<>> /\ allIssues = <<>>
    /\ notifiersToUse = <<>> /\ ni = 0
    /\ retReport = <<>> /\ retErr = ""
    /\ calls = <<>>
    /\ cancelAt = NotCancelled

\* ---------------------------------------------------------- registration
RegisterScanner ==
    /\ pc = "idle" /\ Len(scanners) < scope.scanners
    /\ scanners' = Append(scanners, Len(scanners) + 1)
    /\ UNCHANGED <<scope, parsers, validators, notifiers, pc, config, ctxDone, report,
                   scanVars, parseVars, validVars, notifVars, retVars, history>>

RegisterParser ==
    /\ pc = "idle" /\ Len(parsers) < scope.parsers
    /\ parsers' = Append(parsers, Len(parsers) + 1)
    /\ UNCHANGED <<scope, scanners, validators, notifiers, pc, config, ctxDone, report,
                   scanVars, parseVars, validVars, notifVars, retVars, history>>

RegisterValidator(validationType) ==
    /\ pc = "idle" /\ Len(validators) < scope.validators
    /\ validators' = Append(validators, validationType)
    /\ UNCHANGED <<scope, scanners, parsers, notifiers, pc, config, ctxDone, report,
                   scanVars, parseVars, validVars, notifVars, retVars, history>>

RegisterNotifier(notifierType, isConfigured) ==
    /\ pc = "idle" /\ Len(notifiers) < scope.notifiers
    /\ notifiers' = Append(notifiers, [NotifierType |-> notifierType,
                                       IsConfigured |-> isConfigured])
    /\ UNCHANGED <<scope, scanners, parsers, validators, pc, config, ctxDone, report,
                   scanVars, parseVars, validVars, notifVars, retVars, history>>

RECURSIVE FlattenLastFirst(_)
\* Flatten that takes the files from the last to the first
FlattenLastFirst(files) ==
    IF files = <<>> THEN <<>>
    ELSE FlattenLastFirst(Tail(files)) \o Head(files).Suppressions

RECURSIVE Flatten(_)
\* the Suppressions of the files in the order Validate visits them
Flatten(files) ==
    IF files = <<>> THEN <<>>
    ELSE Head(files).Suppressions \o Flatten(Tail(files))

\* ------------------------------------------------------------ the caller
\* the cancellation checks the running stage has still to make: one for
\* each entry of the walk not yet visited, one for each Suppression the
\* running and the later selected validators have not yet validated
RemainingChecks ==
    LET n == Len(Flatten(suppressionFiles))
    IN  CASE pc = "WalkDir" -> Len(walk) + 1 - wi
          [] pc = "Validate" -> (n - sk) + (Len(validatorsToRun) - vi) * n
          [] pc = "validateSuppressions" -> (Len(validatorsToRun) + 1 - vi) * n
          [] OTHER -> 0

\* the caller cancels the context while the Audit call is running
Cancel ==
    /\ scope.cancel
    /\ pc \notin {"idle", "done"} /\ ~ctxDone
    /\ ctxDone' = TRUE
    /\ cancelAt' = [pc |-> pc, checks |-> RemainingChecks]
    /\ UNCHANGED <<registries, pc, config, report, scanVars, parseVars,
                   validVars, notifVars, retVars, calls>>

\* Audit returns (nil, err)
Fail(err) ==
    /\ pc' = "done"
    /\ retReport' = <<>>
    /\ retErr' = err

\* Audit returns (report, nil)
Succeed(r) ==
    /\ pc' = "done"
    /\ retReport' = <<r>>
    /\ retErr' = ""

\* ------------------------------------------------------------ scan stage
\* Audit is called: the report is created and scanFiles starts
Audit(cfg) ==
    /\ pc = "idle"
    /\ config' = cfg
    /\ report' = EmptyReport
    /\ IF Len(scanners) = 0
          THEN /\ Fail("no scanners registered")
               /\ UNCHANGED scanVars
          ELSE /\ pc' = "scanFiles"
               /\ si' = 1 /\ allFiles' = <<>>
               /\ UNCHANGED <<walk, wi, foundFiles, retVars>>
    /\ UNCHANGED <<registries, ctxDone, parseVars, validVars, notifVars,
                   history>>

\* scanFiles calls Scan of scanner si.  Scan fails when the root is
\* missing; otherwise it walks the tree: the root first, then the entries
\* below it, of which wanted are the files it is looking for
Scan(rootExists, wanted) ==
    /\ pc = "scanFiles" /\ si <= Len(scanners)
    /\ calls' = Append(calls, Call("Scan", si, "", <<>>))
    /\ IF rootExists
          THEN /\ pc' = "WalkDir"
               /\ walk' = wanted /\ wi' = 0 /\ foundFiles' = <<>>
               /\ UNCHANGED retVars
          ELSE /\ Fail("directory does not exist")
               /\ UNCHANGED <<walk, wi, foundFiles>>
    /\ UNCHANGED <<registries, config, ctxDone, report, si, allFiles,
                   parseVars, validVars, notifVars, cancelAt>>

\* the WalkDir callback for the next entry: the cancellation check, then
\* the root directory is passed over and a wanted file is appended
WalkEntry ==
    /\ pc = "WalkDir" /\ wi <= Len(walk)
    /\ IF ctxDone
          THEN /\ Fail("context canceled")
               /\ UNCHANGED <<wi, foundFiles>>
          ELSE /\ foundFiles' = IF wi = 0 THEN foundFiles
                                ELSE Append(foundFiles, walk[wi])
               /\ wi' = wi + 1
               /\ UNCHANGED <<pc, retVars>>
    /\ UNCHANGED <<registries, config, ctxDone, report, si, walk, allFiles,
                   parseVars, validVars, notifVars, history>>

\* AppendUnique without the uniqueFiles test
AppendAll(acc, files) == acc \o files

RECURSIVE AppendUnique(_, _)
\* scanFiles: append the files not yet in allFiles (uniqueFiles is the set
\* of the paths appended so far)
AppendUnique(acc, files) ==
    IF files = <<>> THEN acc
    ELSE AppendUnique(IF InSeq(Head(files), acc) THEN acc
                      ELSE Append(acc, Head(files)),
                      Tail(files))

\* ScanReturn that hands over to parseFiles after the first scanner
ScanReturnFirstOnly ==
    /\ pc = "WalkDir" /\ wi > Len(walk)
    /\ calls' = Append(calls, Call("ScanRet", si, "", foundFiles))
    /\ allFiles' = AppendUnique(allFiles, foundFiles)
    /\ si' = si + 1
    /\ pc' = "parseFiles"
    /\ UNCHANGED <<registries, config, ctxDone, report, walk, wi, foundFiles,
                   parseVars, validVars, notifVars, retVars, cancelAt>>

\* the walk ends: Scan returns foundFiles, scanFiles merges them and goes on
\* to the next scanner, or returns allFiles to Audit, which calls parseFiles
ScanReturn ==
    /\ pc = "WalkDir" /\ wi > Len(walk)
    /\ calls' = Append(calls, Call("ScanRet", si, "", foundFiles))
    /\ allFiles' = AppendUnique(allFiles, foundFiles)
    /\ si' = si + 1
    /\ pc' = IF si = Len(scanners) THEN "parseFiles" ELSE "scanFiles"
    /\ UNCHANGED <<registries, config, ctxDone, report, walk, wi,
                   foundFiles, parseVars, validVars, notifVars, retVars,
                   cancelAt>>

\* parseFiles that asks for a parser only when there is a file to parse
parseFilesUncheckedWhenEmpty ==
    /\ pc = "parseFiles"
    /\ IF Len(parsers) = 0 /\ Len(allFiles) > 0
          THEN /\ Fail("no parsers registered")
               /\ UNCHANGED parseVars
          ELSE /\ pc' = "parseLoop"
               /\ fi' = 1 /\ suppressionFiles' = <<>>
               /\ UNCHANGED retVars
    /\ UNCHANGED <<registries, config, ctxDone, report, scanVars,
                   validVars, notifVars, history>>

\* ----------------------------------------------------------- parse stage
\* parseFiles starts: it needs a parser
parseFiles ==
    /\ pc = "parseFiles"
    /\ IF Len(parsers) = 0
          THEN /\ Fail("no parsers registered")
               /\ UNCHANGED parseVars
          ELSE /\ pc' = "parseLoop"
               /\ fi' = 1 /\ suppressionFiles' = <<>>
               /\ UNCHANGED retVars
    /\ UNCHANGED <<registries, config, ctxDone, report, scanVars,
                   validVars, notifVars, history>>

\* findParserForFile that keeps the last parser whose CanParse answers true
findParserForFileLast(canParse) ==
    IF \E i \in DOMAIN canParse : canParse[i]
       THEN CHOOSE i \in DOMAIN canParse :
                canParse[i] /\ \A j \in (i + 1)..Len(canParse) : ~canParse[j]
       ELSE 0

\* findParserForFile: the first parser whose CanParse answers true, 0 for
\* nil; canParse[i] is the answer of parser i for the file
findParserForFile(canParse) ==
    IF \E i \in DOMAIN canParse : canParse[i]
       THEN CHOOSE i \in DOMAIN canParse :
                canParse[i] /\ \A j \in 1..(i - 1) : ~canParse[j]
       ELSE 0

\* the CanParse calls findParserForFile makes before it returns parser p
CanParseCalls(path, canParse, p) ==
    [i \in 1..(IF p = 0 THEN Len(canParse) ELSE p) |->
        Call("CanParse", i, path, <<canParse[i]>>)]

\* models.Suppression: the three declared fields and the provenance
Suppression(entry, path, line) ==
    [Vulnerability |-> entry.vulnerability, Reason |-> entry.reason,
     IgnoreUntil |-> entry.ignoreUntil, FilePath |-> path, LineNumber |-> line]

\* models.SuppressionFile of the entries a file declares
SuppressionFile(path, entries) ==
    [Path |-> path,
     Suppressions |-> [k \in 1..Len(entries) |-> Suppression(entries[k], path, k)]]

\* the entries a suppression file may declare: one in good standing, and
\* one without a reason that ran out in 2023
Entries ==
    { [vulnerability |-> <<"C", "V", "E">>, reason |-> <<"o", "k">>,
       ignoreUntil |-> <<"2", "0", "9", "9", "-", "0", "1", "-", "0", "1">>],
      [vulnerability |-> <<"C", "V", "E">>, reason |-> <<>>,
       ignoreUntil |-> <<"2", "0", "2", "3", "-", "0", "1", "-", "0", "1">>] }

\* what Parse may return for a file: an error, or the entries of the file
ParseResults(sc) ==
    {[ok |-> FALSE, entries |-> <<>>]}
        \cup {[ok |-> TRUE, entries |-> e] : e \in SeqsUpTo(Entries, sc.supps)}

\* ParseFile that skips a file whose Parse fails
ParseFileSkipOnError(canParse, parsed) ==
    /\ pc = "parseLoop" /\ fi <= Len(allFiles)
    /\ LET filePath == allFiles[fi]
           parser   == findParserForFile(canParse)
       IN  /\ calls' = calls \o CanParseCalls(filePath, canParse, parser)
                         \o (IF parser = 0 THEN <<>>
                             ELSE <<Call("Parse", parser, filePath, <<parsed.ok>>)>>)
           /\ suppressionFiles' =
                 IF parser # 0 /\ parsed.ok
                    THEN Append(suppressionFiles,
                                SuppressionFile(filePath, parsed.entries))
                    ELSE suppressionFiles
    /\ fi' = fi + 1
    /\ UNCHANGED <<registries, pc, config, ctxDone, report, scanVars,
                   validVars, notifVars, retVars, cancelAt>>

\* one iteration of the loop of parseFiles: canParse are the parsers'
\* answers for the file, parsed what Parse returns for it
ParseFile(canParse, parsed) ==
    /\ pc = "parseLoop" /\ fi <= Len(allFiles)
    /\ LET filePath == allFiles[fi]
           parser   == findParserForFile(canParse)
       IN  IF parser = 0
              THEN /\ calls' = calls \o CanParseCalls(filePath, canParse, 0)
                   /\ fi' = fi + 1
                   /\ UNCHANGED <<pc, suppressionFiles, retVars>>
              ELSE /\ calls' = calls \o CanParseCalls(filePath, canParse, parser)
                                 \o <<Call("Parse", parser, filePath, <<parsed.ok>>)>>
                   /\ IF ~parsed.ok
                         THEN /\ Fail("failed to parse file")
                              /\ UNCHANGED <<fi, suppressionFiles>>
                         ELSE /\ suppressionFiles' =
                                   Append(suppressionFiles,
                                          SuppressionFile(filePath, parsed.entries))
                              /\ fi' = fi + 1
                              /\ UNCHANGED <<pc, retVars>>
    /\ UNCHANGED <<registries, config, ctxDone, report, scanVars,
                   validVars, notifVars, cancelAt>>

\* getValidatorsToRun that keeps one validator for each type name
getValidatorsToRunOnePerType(vals, cfg) ==
    LET all == [i \in 1..Len(vals) |-> i]
        FirstOfType(i) ==
            /\ \A j \in 1..(i - 1) : vals[j] # vals[i]
            /\ \/ Len(cfg.ValidatorTypes) = 0
               \/ InSeq(vals[i], cfg.ValidatorTypes)
    IN  SelectSeq(all, FirstOfType)

\* getValidatorsToRun that ignores the filter
getValidatorsToRunAll(vals, cfg) == [i \in 1..Len(vals) |-> i]

\* -------------------------------------------------------- validate stage
\* getValidatorsToRun: the registered validators (by index) the filter keeps
getValidatorsToRun(vals, cfg) ==
    LET all == [i \in 1..Len(vals) |-> i]
        Requested(i) == InSeq(vals[i], cfg.ValidatorTypes)
    IN  IF Len(cfg.ValidatorTypes) = 0 THEN all
        ELSE SelectSeq(all, Requested)

\* AuditParsed that counts the files discovered
AuditParsedCountsDiscovered ==
    /\ pc = "parseLoop" /\ fi > Len(allFiles)
    /\ report' = [report EXCEPT
                    !.FilesScanned = suppressionFiles,
                    !.TotalFiles = Len(allFiles),
                    !.TotalSuppressions = SumSuppressions(suppressionFiles)]
    /\ IF Len(suppressionFiles) > 0
          THEN /\ pc' = "validateSuppressions"
               /\ validatorsToRun' = getValidatorsToRun(validators, config)
               /\ vi' = 1 /\ allIssues' = <<>>
               /\ UNCHANGED <<sk, issues>>
          ELSE /\ pc' = "notify"
               /\ UNCHANGED validVars
    /\ UNCHANGED <<registries, config, ctxDone, scanVars, parseVars,
                   notifVars, retVars, history>>

\* parseFiles has returned: Audit fills the report, then validates when a
\* file was parsed
AuditParsed ==
    /\ pc = "parseLoop" /\ fi > Len(allFiles)
    /\ report' = [report EXCEPT
                    !.FilesScanned = suppressionFiles,
                    !.TotalFiles = Len(suppressionFiles),
                    !.TotalSuppressions = SumSuppressions(suppressionFiles)]
    /\ IF Len(suppressionFiles) > 0
          THEN /\ pc' = "validateSuppressions"
               /\ validatorsToRun' = getValidatorsToRun(validators, config)
               /\ vi' = 1 /\ allIssues' = <<>>
               /\ UNCHANGED <<sk, issues>>
          ELSE /\ pc' = "notify"
               /\ UNCHANGED validVars
    /\ UNCHANGED <<registries, config, ctxDone, scanVars, parseVars,
                   notifVars, retVars, history>>

\* models.ValidationIssue; Days is the day count the message carries (0
\* when it carries none), ExpiredDate is <<>> for nil
Issue(type, suppression, message, days, severity, expiredDate) ==
    [Type |-> type, Suppression |-> suppression, Message |-> message,
     Days |-> days, Severity |-> severity, ExpiredDate |-> expiredDate]

\* ExpiryValidator.daysSinceExpiry
daysSinceExpiry(currentTime, expiryDate) == DaysBetween(currentTime, expiryDate)

\* validateSuppression that returns after a missing reason
validateSuppressionReasonStops(currentTime, suppression) ==
    LET vulnerability ==
            IF TrimSpace(suppression.Vulnerability) = <<>>
               THEN <<Issue("missing_date", suppression,
                            "Missing vulnerability identifier", 0,
                            SeverityError, <<>>)>>
               ELSE <<>>
        parsed == parseDate(suppression.IgnoreUntil)
        expiryDate == parsed[1]
        expired ==
            IF After(currentTime, expiryDate)
               THEN <<Issue("expired", suppression, "Suppression expired",
                            daysSinceExpiry(currentTime, expiryDate),
                            SeverityError, <<expiryDate>>)>>
               ELSE <<>>
        daysUntilExpiry == DaysBetween(expiryDate, currentTime)
        expiring ==
            IF daysUntilExpiry > 0 /\ daysUntilExpiry <= 30
               THEN <<Issue("expiring_soon", suppression, "Suppression expires",
                            daysUntilExpiry, SeverityWarning, <<>>)>>
               ELSE <<>>
    IN  IF TrimSpace(suppression.Reason) = <<>>
           THEN vulnerability \o
                <<Issue("missing_reason", suppression,
                        "Missing suppression reason", 0, SeverityWarning, <<>>)>>
        ELSE IF TrimSpace(suppression.IgnoreUntil) = <<>>
           THEN vulnerability \o
                <<Issue("missing_date", suppression, "Missing expiration date",
                        0, SeverityError, <<>>)>>
        ELSE IF parsed = <<>>
           THEN vulnerability \o
                <<Issue("invalid_date", suppression, "Invalid date format",
                        0, SeverityError, <<>>)>>
        ELSE vulnerability \o expired \o expiring

\* validateSuppression that goes on to parse a blank date
validateSuppressionNoStop(currentTime, suppression) ==
    LET vulnerability ==
            IF TrimSpace(suppression.Vulnerability) = <<>>
               THEN <<Issue("missing_date", suppression,
                            "Missing vulnerability identifier", 0,
                            SeverityError, <<>>)>>
               ELSE <<>>
        reason ==
            IF TrimSpace(suppression.Reason) = <<>>
               THEN <<Issue("missing_reason", suppression,
                            "Missing suppression reason", 0,
                            SeverityWarning, <<>>)>>
               ELSE <<>>
        parsed == parseDate(suppression.IgnoreUntil)
        expiryDate == parsed[1]
        expired ==
            IF After(currentTime, expiryDate)
               THEN <<Issue("expired", suppression, "Suppression expired",
                            daysSinceExpiry(currentTime, expiryDate),
                            SeverityError, <<expiryDate>>)>>
               ELSE <<>>
        daysUntilExpiry == DaysBetween(expiryDate, currentTime)
        expiring ==
            IF daysUntilExpiry > 0 /\ daysUntilExpiry <= 30
               THEN <<Issue("expiring_soon", suppression, "Suppression expires",
                            daysUntilExpiry, SeverityWarning, <<>>)>>
               ELSE <<>>
    IN  IF TrimSpace(suppression.IgnoreUntil) = <<>>
           THEN vulnerability \o reason \o
                <<Issue("missing_date", suppression, "Missing expiration date",
                        0, SeverityError, <<>>),
                  Issue("invalid_date", suppression, "Invalid date format",
                        0, SeverityError, <<>>)>>
        ELSE IF parsed = <<>>
           THEN vulnerability \o reason \o
                <<Issue("invalid_date", suppression, "Invalid date format",
                        0, SeverityError, <<>>)>>
        ELSE vulnerability \o reason \o expired \o expiring

\* validateSuppression with an expiring-soon window that starts at 0 days
validateSuppressionSoonFromZero(currentTime, suppression) ==
    LET vulnerability ==
            IF TrimSpace(suppression.Vulnerability) = <<>>
               THEN <<Issue("missing_date", suppression,
                            "Missing vulnerability identifier", 0,
                            SeverityError, <<>>)>>
               ELSE <<>>
        reason ==
            IF TrimSpace(suppression.Reason) = <<>>
               THEN <<Issue("missing_reason", suppression,
                            "Missing suppression reason", 0,
                            SeverityWarning, <<>>)>>
               ELSE <<>>
        parsed == parseDate(suppression.IgnoreUntil)
        expiryDate == parsed[1]
        expired ==
            IF After(currentTime, expiryDate)
               THEN <<Issue("expired", suppression, "Suppression expired",
                            daysSinceExpiry(currentTime, expiryDate),
                            SeverityError, <<expiryDate>>)>>
               ELSE <<>>
        daysUntilExpiry == DaysBetween(expiryDate, currentTime)
        expiring ==
            IF daysUntilExpiry >= 0 /\ daysUntilExpiry <= 30
               THEN <<Issue("expiring_soon", suppression, "Suppression expires",
                            daysUntilExpiry, SeverityWarning, <<>>)>>
               ELSE <<>>
    IN  IF TrimSpace(suppression.IgnoreUntil) = <<>>
           THEN vulnerability \o reason \o
                <<Issue("missing_date", suppression, "Missing expiration date",
                        0, SeverityError, <<>>)>>
        ELSE IF parsed = <<>>
           THEN vulnerability \o reason \o
                <<Issue("invalid_date", suppression, "Invalid date format",
                        0, SeverityError, <<>>)>>
        ELSE vulnerability \o reason \o expired \o expiring

\* ExpiryValidator.validateSuppression: the issues of one record
validateSuppression(currentTime, suppression) ==
    LET vulnerability ==
            IF TrimSpace(suppression.Vulnerability) = <<>>
               THEN <<Issue("missing_date", suppression,
                            "Missing vulnerability identifier", 0,
                            SeverityError, <<>>)>>
               ELSE <<>>
        reason ==
            IF TrimSpace(suppression.Reason) = <<>>
               THEN <<Issue("missing_reason", suppression,
                            "Missing suppression reason", 0,
                            SeverityWarning, <<>>)>>
               ELSE <<>>
        parsed == parseDate(suppression.IgnoreUntil)
        expiryDate == parsed[1]
        expired ==
            IF After(currentTime, expiryDate)
               THEN <<Issue("expired", suppression, "Suppression expired",
                            daysSinceExpiry(currentTime, expiryDate),
                            SeverityError, <<expiryDate>>)>>
               ELSE <<>>
        daysUntilExpiry == DaysBetween(expiryDate, currentTime)
        expiring ==
            IF daysUntilExpiry > 0 /\ daysUntilExpiry <= 30
               THEN <<Issue("expiring_soon", suppression, "Suppression expires",
                            daysUntilExpiry, SeverityWarning, <<>>)>>
               ELSE <<>>
    IN  IF TrimSpace(suppression.IgnoreUntil) = <<>>
           THEN vulnerability \o reason \o
                <<Issue("missing_date", suppression, "Missing expiration date",
                        0, SeverityError, <<>>)>>
        ELSE IF parsed = <<>>
           THEN vulnerability \o reason \o
                <<Issue("invalid_date", suppression, "Invalid date format",
                        0, SeverityError, <<>>)>>
        ELSE vulnerability \o reason \o expired \o expiring

\* the currentTime of the registered validators: 2025-01-01T00:00:00Z
currentTime == Instant(DayNumber(2025, 1, 1), 0, 0)

\* validateSuppressions calls Validate of the next selected validator
Validate ==
    /\ pc = "validateSuppressions" /\ vi <= Len(validatorsToRun)
    /\ calls' = Append(calls, Call("Validate", validatorsToRun[vi], "", <<>>))
    /\ pc' = "Validate"
    /\ sk' = 0 /\ issues' = <<>>
    /\ UNCHANGED <<registries, config, ctxDone, report, scanVars,
                   parseVars, validatorsToRun, vi, allIssues, notifVars,
                   retVars, cancelAt>>

\* ValidateNext that returns the cancellation error without the issues
ValidateNextErrorOnly ==
    /\ pc = "Validate" /\ sk < Len(Flatten(suppressionFiles))
    /\ IF ctxDone
          THEN /\ Fail("context canceled")
               /\ calls' = Append(calls, Call("ValidateErr", validatorsToRun[vi],
                                              "", <<>>))
               /\ UNCHANGED <<sk, issues>>
          ELSE /\ UNCHANGED calls
               /\ issues' = issues \o
                     validateSuppression(currentTime,
                                         Flatten(suppressionFiles)[sk + 1])
               /\ sk' = sk + 1
               /\ UNCHANGED <<pc, retVars>>
    /\ UNCHANGED <<registries, config, ctxDone, report, scanVars,
                   parseVars, validatorsToRun, vi, allIssues, notifVars,
                   cancelAt>>

\* ValidateNext without the look at ctx.Done()
ValidateNextUnchecked ==
    /\ pc = "Validate" /\ sk < Len(Flatten(suppressionFiles))
    /\ issues' = issues \o
          validateSuppression(currentTime, Flatten(suppressionFiles)[sk + 1])
    /\ sk' = sk + 1
    /\ UNCHANGED <<registries, pc, config, ctxDone, report, scanVars,
                   parseVars, validatorsToRun, vi, allIssues, notifVars,
                   retVars, history>>

\* one iteration of the loop of Validate: the cancellation check, then the
\* issues of the record are appended
ValidateNext ==
    /\ pc = "Validate" /\ sk < Len(Flatten(suppressionFiles))
    /\ IF ctxDone
          THEN /\ Fail("context canceled")
               /\ calls' = Append(calls, Call("ValidateErr", validatorsToRun[vi],
                                              "", issues))
               /\ UNCHANGED <<sk, issues>>
          ELSE /\ UNCHANGED calls
               /\ issues' = issues \o
                     validateSuppression(currentTime,
                                         Flatten(suppressionFiles)[sk + 1])
               /\ sk' = sk + 1
               /\ UNCHANGED <<pc, retVars>>
    /\ UNCHANGED <<registries, config, ctxDone, report, scanVars,
                   parseVars, validatorsToRun, vi, allIssues, notifVars,
                   cancelAt>>

\* Validate returns its issues; validateSuppressions appends them
ValidateReturn ==
    /\ pc = "Validate" /\ sk = Len(Flatten(suppressionFiles))
    /\ calls' = Append(calls, Call("ValidateRet", validatorsToRun[vi], "", issues))
    /\ allIssues' = allIssues \o issues
    /\ vi' = vi + 1
    /\ pc' = "validateSuppressions"
    /\ UNCHANGED <<registries, config, ctxDone, report, scanVars,
                   parseVars, validatorsToRun, sk, issues, notifVars,
                   retVars, cancelAt>>

\* validateSuppressions returns; Audit stores the issues in the report
AuditValidated ==
    /\ pc = "validateSuppressions" /\ vi > Len(validatorsToRun)
    /\ report' = [report EXCEPT !.Issues = allIssues]
    /\ pc' = "notify"
    /\ UNCHANGED <<registries, config, ctxDone, scanVars, parseVars,
                   validVars, notifVars, retVars, history>>

\* getNotifiersToUse without the break: a notifier is appended once for
\* each entry of the filter that names its type
getNotifiersToUseNoBreak(nots, cfg) ==
    LET all == [i \in 1..Len(nots) |-> i]
        Configured(i) == nots[i].IsConfigured
        Matches(i) ==
            {k \in 1..Len(cfg.NotifierTypes) :
                /\ nots[i].NotifierType = cfg.NotifierTypes[k]
                /\ nots[i].IsConfigured}
        RECURSIVE From(_)
        From(i) ==
            IF i > Len(nots) THEN <<>>
            ELSE [k \in 1..Cardinality(Matches(i)) |-> i] \o From(i + 1)
    IN  IF Len(cfg.NotifierTypes) = 0 THEN SelectSeq(all, Configured)
        ELSE From(1)

\* ---------------------------------------------------------- notify stage
\* getNotifiersToUse: the registered notifiers (by index) that are
\* configured and that the filter keeps
getNotifiersToUse(nots, cfg) ==
    LET all == [i \in 1..Len(nots) |-> i]
        Configured(i) == nots[i].IsConfigured
        Requested(i) == /\ InSeq(nots[i].NotifierType, cfg.NotifierTypes)
                        /\ nots[i].IsConfigured
    IN  IF Len(cfg.NotifierTypes) = 0 THEN SelectSeq(all, Configured)
        ELSE SelectSeq(all, Requested)

\* ShouldNotify without the dry-run test
ShouldNotifyIgnoringDryRun(cfg, r) == HasIssues(r)

\* Audit: notifications are sent when not a dry run and the report has issues
ShouldNotify(cfg, r) == ~cfg.DryRun /\ HasIssues(r)

\* Audit, step 4: start sendNotifications or return the report
AuditNotify ==
    /\ pc = "notify"
    /\ IF ShouldNotify(config, report)
          THEN /\ pc' = "sendNotifications"
               /\ notifiersToUse' = getNotifiersToUse(notifiers, config)
               /\ ni' = 1
               /\ UNCHANGED retVars
          ELSE /\ Succeed(report)
               /\ UNCHANGED notifVars
    /\ UNCHANGED <<registries, config, ctxDone, report, scanVars,
                   parseVars, validVars, history>>

\* Notify whose failure makes sendNotifications return the error
NotifyAbortOnFailure(delivered) ==
    /\ pc = "sendNotifications" /\ ni <= Len(notifiersToUse)
    /\ ctxDone => ~delivered
    /\ calls' = Append(calls, Call("Notify", notifiersToUse[ni], "", <<delivered>>))
    /\ IF delivered
          THEN /\ ni' = ni + 1
               /\ UNCHANGED <<pc, retVars>>
          ELSE /\ Fail("failed to send notifications")
               /\ UNCHANGED ni
    /\ UNCHANGED <<registries, config, ctxDone, report, scanVars,
                   parseVars, validVars, notifiersToUse, cancelAt>>

\* one iteration of the loop of sendNotifications: an unconfigured notifier
\* is skipped, otherwise Notify is called; delivered is whether the delivery
\* succeeded (it cannot once the context is cancelled); a failure is logged
Notify(delivered) ==
    /\ pc = "sendNotifications" /\ ni <= Len(notifiersToUse)
    /\ ctxDone => ~delivered
    /\ LET n == notifiersToUse[ni]
       IN  calls' = IF notifiers[n].IsConfigured
                       THEN Append(calls, Call("Notify", n, "", <<delivered>>))
                       ELSE calls
    /\ ni' = ni + 1
    /\ UNCHANGED <<registries, pc, config, ctxDone, report, scanVars,
                   parseVars, validVars, notifiersToUse, retVars, cancelAt>>

\* sendNotifications returns nil; Audit returns the report
AuditReturn ==
    /\ pc = "sendNotifications" /\ ni > Len(notifiersToUse)
    /\ Succeed(report)
    /\ UNCHANGED <<registries, config, ctxDone, report, scanVars,
                   parseVars, validVars, notifVars, history>>

\* --------------------------------------------------------- specification
Next ==
    \/ RegisterScanner
    \/ RegisterParser
    \/ \E t \in scope.vtypes : RegisterValidator(t)
    \/ \E t \in scope.ntypes, c \in BOOLEAN : RegisterNotifier(t, c)
    \/ \E cfg \in AuditConfigs(scope) : Audit(cfg)
    \/ Cancel
    \/ \E rootExists \in BOOLEAN, wanted \in SeqsUpTo(Paths, scope.found) :
          Scan(rootExists, wanted)
    \/ WalkEntry
    \/ ScanReturn
    \/ parseFiles
    \/ \E canParse \in [1..Len(parsers) -> BOOLEAN],
          parsed \in ParseResults(scope) : ParseFile(canParse, parsed)
    \/ AuditParsed
    \/ Validate
    \/ ValidateNext
    \/ ValidateReturn
    \/ AuditValidated
    \/ AuditNotify
    \/ \E delivered \in BOOLEAN : Notify(delivered)
    \/ AuditReturn

Spec == Init /\ [][Next]_vars

\* ================================================================ claims
\* the positions of the calls of one kind in the history
CallsOf(op) == {i \in 1..Len(calls) : calls[i].op = op}
HasCall(op) == CallsOf(op) # {}

\* the stage a call belongs to
StageOf(op) ==
    CASE op \in {"Scan", "ScanRet"} -> 1
      [] op \in {"CanParse", "Parse"} -> 2
      [] op \in {"Validate", "ValidateRet", "ValidateErr"} -> 3
      [] op = "Notify" -> 4

\* validator v is selected by the validator-type filter of the config
SelectedValidator(v) ==
    \/ config.ValidatorTypes = <<>>
    \/ InSeq(validators[v], config.ValidatorTypes)

\* notifier n is configured and selected by the notifier-type filter
SelectedNotifier(n) ==
    /\ notifiers[n].IsConfigured
    /\ \/ config.NotifierTypes = <<>>
       \/ InSeq(notifiers[n].NotifierType, config.NotifierTypes)

\* the file at allFiles[k] has been dealt with by the parse stage: it was
\* parsed, or the last registered parser also answered that it cannot
Handled(k) ==
    \E i \in 1..Len(calls) :
        /\ calls[i].path = allFiles[k]
        /\ \/ calls[i].op = "Parse"
           \/ /\ calls[i].op = "CanParse" /\ calls[i].who = Len(parsers)
              /\ calls[i].val = <<FALSE>>

\* C1: the calls of an Audit run in the order Scan, Parse, Validate, Notify:
\* no call of a later stage precedes a call of an earlier one, a parser is
\* called only when every registered scanner has returned, a validator only
\* when every discovered file has been dealt with, and a notifier only when
\* every selected validator has returned.
C1_StageOrder ==
    /\ \A i, j \in 1..Len(calls) :
          i < j => StageOf(calls[i].op) <= StageOf(calls[j].op)
    /\ (HasCall("CanParse") \/ HasCall("Parse")) =>
          \A sc \in 1..Len(scanners) :
             \E i \in CallsOf("ScanRet") : calls[i].who = sc
    /\ HasCall("Validate") => \A k \in 1..Len(allFiles) : Handled(k)
    /\ HasCall("Notify") =>
          \A v \in 1..Len(validators) :
             SelectedValidator(v) =>
                \E i \in CallsOf("ValidateRet") : calls[i].who = v

\* C1 witness: an Audit that went through all four stages, with two
\* files and a notifier called
C1_Witness ==
    /\ pc = "done" /\ HasCall("Notify") /\ HasCall("ValidateRet")
    /\ Cardinality(CallsOf("Parse")) = 2

\* C2: with DryRun set, or with a report without issues, no notifier is
\* called.
C2_NoNotifyOnDryRunOrClean ==
    (config.DryRun \/ Len(report.Issues) = 0) => ~HasCall("Notify")

\* C2 witness: a dry run that ended with issues in the report while a
\* configured notifier the filter selects was registered
C2_Witness ==
    /\ pc = "done" /\ retErr = "" /\ config.DryRun
    /\ Len(report.Issues) > 0
    /\ \E n \in 1..Len(notifiers) : SelectedNotifier(n)

\* C3: when Parse fails for a file, that call is the last call of the
\* Audit: no further file is parsed, no validator and no notifier is
\* called, and Audit returns an error and no report.
C3_ParseFailureAborts ==
    \A i \in CallsOf("Parse") :
        calls[i].val = <<FALSE>> =>
            /\ i = Len(calls)
            /\ ~HasCall("Validate") /\ ~HasCall("Notify")
            /\ pc = "done" /\ retReport = <<>> /\ retErr = "failed to parse file"

\* C3 witness: Parse failed for the first of two files, with a validator
\* and a configured notifier registered
C3_Witness ==
    /\ \E i \in CallsOf("Parse") : calls[i].val = <<FALSE>>
    /\ Len(allFiles) = 2 /\ fi = 1
    /\ Len(validators) > 0
    /\ \E n \in 1..Len(notifiers) : SelectedNotifier(n)

\* C4: once notifiers are called, Audit returns the report and no error,
\* whatever the notifiers return; and when the notify stage runs, every
\* configured notifier the filter selects is called.
C4_NotifierFailureSwallowed ==
    /\ (pc = "done" /\ HasCall("Notify")) =>
          retErr = "" /\ retReport = <<report>>
    /\ (pc = "done" /\ retErr = "" /\ ~config.DryRun /\ Len(report.Issues) > 0) =>
          \A n \in 1..Len(notifiers) :
             SelectedNotifier(n) => \E i \in CallsOf("Notify") : calls[i].who = n

\* C4 witness: a notifier failed and a later notifier was still called
C4_Witness ==
    /\ pc = "done"
    /\ \E i, j \in CallsOf("Notify") : i < j /\ calls[i].val = <<FALSE>>

RECURSIVE ScanResults(_)
\* the results the scanners returned, one after the other
ScanResults(log) ==
    IF log = <<>> THEN <<>>
    ELSE (IF Head(log).op = "ScanRet" THEN Head(log).val ELSE <<>>)
            \o ScanResults(Tail(log))

RECURSIVE FirstOccurrences(_)
\* a sequence without the elements that occur earlier in it
FirstOccurrences(seq) ==
    IF seq = <<>> THEN <<>>
    ELSE LET front == SubSeq(seq, 1, Len(seq) - 1)
             last  == seq[Len(seq)]
         IN  IF InSeq(last, front) THEN FirstOccurrences(front)
             ELSE Append(FirstOccurrences(front), last)

RECURSIVE PathsAsked(_)
\* the paths the parse stage took up, in order: the paths of the CanParse
\* calls to the first parser
PathsAsked(log) ==
    IF log = <<>> THEN <<>>
    ELSE (IF Head(log).op = "CanParse" /\ Head(log).who = 1
             THEN <<Head(log).path>> ELSE <<>>)
            \o PathsAsked(Tail(log))

\* C5: the paths collected by the scan stage are the scanners' results, in
\* registration order, with each path kept at its first occurrence only;
\* the parse stage takes them up in that order.
C5_DedupFirstSeen ==
    /\ allFiles = FirstOccurrences(ScanResults(calls))
    /\ PathsAsked(calls) = SubSeq(allFiles, 1, Len(PathsAsked(calls)))

\* C5 witness: one scanner returned a path twice, two scanners returned
\* the same path, and the parse stage has taken up two paths
C5_Witness ==
    /\ \E i \in CallsOf("ScanRet") :
          \E a, b \in 1..Len(calls[i].val) :
             a < b /\ calls[i].val[a] = calls[i].val[b]
    /\ \E i, j \in CallsOf("ScanRet") :
          /\ i < j
          /\ \E a \in 1..Len(calls[i].val), b \in 1..Len(calls[j].val) :
                calls[i].val[a] = calls[j].val[b]
    /\ Len(PathsAsked(calls)) = 2

\* the paths of the parsed files, in the order they were parsed
ParsedPaths == [k \in 1..Len(suppressionFiles) |-> suppressionFiles[k].Path]

\* some parser answered that it can parse the path
Accepted(path) ==
    \E i \in CallsOf("CanParse") : calls[i].path = path /\ calls[i].val = <<TRUE>>

\* the parse stage has gone through every discovered path without a failure
ParseStageDone ==
    \/ pc \in {"validateSuppressions", "Validate", "notify", "sendNotifications"}
    \/ pc = "done" /\ retErr \in {"", "context canceled"} /\ HasCall("ScanRet")
                   /\ fi > Len(allFiles)

\* C6: a path is parsed by the first parser, in registration order, whose
\* CanParse answers true, right after that answer, and by no other parser;
\* a path no parser accepts is left out of the parsed files without an
\* error, and the paths after it are still parsed.
C6_FirstParserWins ==
    /\ \A i \in CallsOf("Parse") :
          /\ i > calls[i].who
          /\ \A k \in 1..calls[i].who :
                calls[i - 1 - (calls[i].who - k)] =
                   Call("CanParse", k, calls[i].path, <<k = calls[i].who>>)
          /\ \A j \in CallsOf("Parse") : calls[j].path = calls[i].path => j = i
    /\ \A i \in CallsOf("CanParse") :
          calls[i].val = <<TRUE>> =>
             /\ i < Len(calls)
             /\ calls[i + 1].op = "Parse" /\ calls[i + 1].who = calls[i].who
             /\ calls[i + 1].path = calls[i].path
    /\ ParseStageDone =>
          /\ ParsedPaths = SelectSeq(allFiles, Accepted)
          /\ report.TotalFiles = Len(ParsedPaths) \/ pc = "parseLoop"

\* C6 witness: no parser accepted the first of two paths, the second was
\* parsed by the second parser, and Audit returned the report
C6_Witness ==
    /\ pc = "done" /\ retErr = "" /\ Len(allFiles) = 2
    /\ ~Accepted(allFiles[1])
    /\ ParsedPaths = <<allFiles[2]>>
    /\ \E i \in CallsOf("Parse") : calls[i].who = 2

\* C7: with no scanner or no parser registered, Audit returns an error and
\* no report, whatever the scanners find, and calls no validator and no
\* notifier.
C7_NoScannersOrParsersFatal ==
    (pc = "done" /\ (Len(scanners) = 0 \/ Len(parsers) = 0)) =>
        /\ retErr # "" /\ retReport = <<>>
        /\ ~HasCall("Validate") /\ ~HasCall("Notify")
        /\ Len(scanners) = 0 => retErr = "no scanners registered" /\ calls = <<>>
        /\ (Len(scanners) > 0 /\ retErr \notin {"directory does not exist",
                                                "context canceled"})
              => retErr = "no parsers registered"

\* C7 witness: no parser registered, the scan found no file, a validator
\* and a notifier were registered
C7_Witness ==
    /\ pc = "done" /\ Len(parsers) = 0 /\ HasCall("ScanRet")
    /\ allFiles = <<>> /\ retErr = "no parsers registered"
    /\ Len(validators) > 0 /\ Len(notifiers) > 0

RECURSIVE Returned(_)
\* the issue lists the validators returned, one after the other
Returned(log) ==
    IF log = <<>> THEN <<>>
    ELSE (IF Head(log).op = "ValidateRet" THEN Head(log).val ELSE <<>>)
            \o Returned(Tail(log))

RECURSIVE ValidatorsCalled(_)
\* the validators called, in the order of the calls
ValidatorsCalled(log) ==
    IF log = <<>> THEN <<>>
    ELSE (IF Head(log).op = "Validate" THEN <<Head(log).who>> ELSE <<>>)
            \o ValidatorsCalled(Tail(log))

\* C8: when Audit returns a report and a file was parsed, the validators
\* called are the registered validators the filter selects (all for an
\* empty filter), each once and in registration order, and the report's
\* issues are the lists they returned, one after the other; when no file was
\* parsed no validator is called and there is no issue; when a validator
\* returns an error, Audit returns an error and no report.
C8_IssuesConcatenated ==
    /\ (pc = "done" /\ retErr = "") =>
          IF Len(report.FilesScanned) > 0
             THEN /\ ValidatorsCalled(calls) =
                        SelectSeq([v \in 1..Len(validators) |-> v],
                                  SelectedValidator)
                  /\ Cardinality(CallsOf("ValidateRet")) =
                        Len(ValidatorsCalled(calls))
                  /\ report.Issues = Returned(calls)
             ELSE ~HasCall("Validate") /\ report.Issues = <<>>
    /\ HasCall("ValidateErr") =>
          pc = "done" /\ retErr = "context canceled" /\ retReport = <<>>

\* C8 witness: of two validators of different types the filter selected the
\* second, and the report has the issues it returned
C8_Witness ==
    /\ pc = "done" /\ retErr = "" /\ Len(validators) = 2
    /\ validators[1] # validators[2]
    /\ config.ValidatorTypes = <<validators[2]>>
    /\ Len(report.Issues) > 0

\* the errors Audit returns
AuditErrors ==
    {"no scanners registered", "directory does not exist", "context canceled",
     "no parsers registered", "failed to parse file"}

\* C9: Notify is called only on a configured notifier that the filter
\* selects (any configured one for an empty filter), and at most once on
\* each notifier, also when the filter names its type twice; the notifiers
\* left out cause no error.
C9_OnlyConfiguredSelectedOnce ==
    /\ \A i \in CallsOf("Notify") : SelectedNotifier(calls[i].who)
    /\ \A i, j \in CallsOf("Notify") : calls[i].who = calls[j].who => i = j
    /\ retErr # "" => retErr \in AuditErrors /\ ~HasCall("Notify")
    /\ (pc = "done" /\ ~config.DryRun /\ Len(report.Issues) > 0) => retErr = ""

\* C9 witness: the filter names a type twice, a configured notifier of that
\* type was called, and another registered notifier was left out
C9_Witness ==
    /\ pc = "done" /\ retErr = ""
    /\ Len(config.NotifierTypes) = 2
    /\ config.NotifierTypes[1] = config.NotifierTypes[2]
    /\ \E i \in CallsOf("Notify") :
          notifiers[calls[i].who].NotifierType = config.NotifierTypes[1]
    /\ \E n \in 1..Len(notifiers) : ~SelectedNotifier(n)

\* the walk had an entry left to visit, or the validate stage a Suppression
\* left to validate, when the context was cancelled
CancelledBeforeCheck ==
    /\ cancelAt.pc \in {"WalkDir", "validateSuppressions", "Validate"}
    /\ cancelAt.checks > 0

\* C10 as stated: a cancellation while a walk has an entry left, or while
\* a validator is running, makes Audit return the cancellation error and no
\* report, for every set of parsed files.
C10_Original ==
    (pc = "done" /\ (CancelledBeforeCheck \/ cancelAt.pc = "Validate"))
        => retErr = "context canceled" /\ retReport = <<>>

\* C10: a cancellation is noticed before each entry of the walk and before
\* each Suppression of the validation: when the context is cancelled while
\* the walk has an entry left, or while the validate stage has a Suppression
\* left to validate, no notifier is called and Audit returns the
\* cancellation error and no report.
C10_CancelNoticedAtChecks ==
    CancelledBeforeCheck =>
        /\ ~HasCall("Notify")
        /\ pc = "done" => retErr = "context canceled" /\ retReport = <<>>

\* C10 witness: the context was cancelled in the validation loop after an
\* issue was found and before the last Suppression; Audit returned the error
C10_Witness ==
    /\ pc = "done" /\ cancelAt.pc = "Validate" /\ cancelAt.checks > 0
    /\ retErr = "context canceled" /\ retReport = <<>>
    /\ \E i \in CallsOf("ValidateErr") : Len(calls[i].val) > 0

\* ------------------------------------------- the expiry validator alone
\* the identifiers, reasons and expiration dates of the records handed to
\* the validator
Identifiers == {<<>>, <<" ">>, <<"C", "V", "E">>}

Reasons == {<<>>, <<" ", "\t">>, <<"o", "k">>}

IgnoreUntils ==
    {
      <<>>,
      <<" ", " ">>,
      <<"s", "o", "o", "n">>,
      <<"2", "0", "2", "5", "-", "0", "2", "-", "3", "0">>,
      <<"2", "0", "2", "3", "-", "0", "1", "-", "0", "1">>,
      <<"2", "0", "2", "4", "-", "1", "2", "-", "3", "1">>,
      <<"2", "0", "2", "4", "-", "1", "2", "-", "3", "1", "T", "2", "3", ":",
        "5", "9", ":", "5", "9", "Z">>,
      <<"2", "0", "2", "5", "-", "0", "1", "-", "0", "1">>,
      <<"2", "0", "2", "5", "-", "0", "1", "-", "0", "1", "T", "1", "2", ":",
        "0", "0", ":", "0", "0", "Z">>,
      <<"2", "0", "2", "5", "-", "0", "1", "-", "0", "2">>,
      <<"2", "0", "2", "5", "-", "0", "1", "-", "2", "0">>,
      <<" ", "2", "0", "2", "5", "-", "0", "1", "-", "2", "0", "\t">>,
      <<"2", "0", "2", "5", "-", "0", "1", "-", "3", "1">>,
      <<"2", "0", "2", "5", "-", "0", "1", "-", "3", "1", "T", "2", "3", ":",
        "5", "9", ":", "5", "9", "+", "0", "2", ":", "0", "0">>,
      <<"2", "0", "2", "5", "-", "0", "2", "-", "0", "1">>,
      <<"2", "0", "9", "9", "-", "0", "1", "-", "0", "1">>,
      <<"1", "7", "0", "0", "-", "0", "1", "-", "0", "1">>,
      <<"9", "9", "9", "9", "-", "1", "2", "-", "3", "1">>,
      <<"0", "1", "/", "2", "0", "/", "2", "0", "2", "5">>,
      <<"2", "0", "-", "0", "1", "-", "2", "0", "2", "5">>
    }

ValidatorInputs ==
    [vulnerability : Identifiers, reason : Reasons, ignoreUntil : IgnoreUntils]

\* NewExpiryValidatorWithTime(currentTime).Validate(ctx, files) called on
\* one file with one record
InitValidate ==
    /\ scope = ValidateScope
    /\ scanners = <<>> /\ parsers = <<>> /\ notifiers = <<>>
    /\ validators = <<"expiry">>
    /\ pc = "Validate"
    /\ config = NoConfig
    /\ ctxDone = FALSE
    /\ report = EmptyReport
    /\ si = 0 /\ walk = <<>> /\ wi = 0 /\ foundFiles = <<>> /\ allFiles = <<>>
    /\ fi = 0
    /\ suppressionFiles \in
          {<<SuppressionFile("a/suppressions.xml", <<e>>)>> : e \in ValidatorInputs}
    /\ validatorsToRun = <<1>> /\ vi = 1 /\ sk = 0
    /\ issues = <<>> /\ allIssues = <<>>
    /\ notifiersToUse = <<>> /\ ni = 0
    /\ retReport = <<>> /\ retErr = ""
    /\ calls = <<Call("Validate", 1, "", <<>>)>>
    /\ cancelAt = NotCancelled

NextValidate ==
    \/ ValidateNext
    \/ ValidateReturn

SpecValidate == InitValidate /\ [][NextValidate]_vars

\* the record handed to the validator, once it has been validated
Record == Flatten(suppressionFiles)[1]
Validated == Len(Flatten(suppressionFiles)) = 1 /\ sk = 1

\* a string that is empty or holds white space only
Blank(str) == \A i \in 1..Len(str) : str[i] \in {" ", "\t", "\n", "\r"}

\* the positions of the issues of one kind
IssuesOfKind(kind) == {i \in 1..Len(issues) : issues[i].Type = kind}

\* the kinds of issue that come from the date
DateKinds == {"missing_date", "invalid_date", "expired", "expiring_soon"}

\* C11 as stated: a record with a blank ignoreUntil gets exactly one issue of
\* kind missing-date, of error severity, and no invalid-date, expired or
\* expiring-soon issue, whatever its identifier and reason are.
C11_BlankDateOneMissingDate ==
    (Validated /\ Blank(Record.IgnoreUntil)) =>
        /\ Cardinality(IssuesOfKind("missing_date")) = 1
        /\ \A i \in IssuesOfKind("missing_date") :
              issues[i].Severity = SeverityError
        /\ IssuesOfKind("invalid_date") = {}
        /\ IssuesOfKind("expired") = {}
        /\ IssuesOfKind("expiring_soon") = {}

\* an issue without the record it is about
Bare(issue) ==
    [Type |-> issue.Type, Message |-> issue.Message, Days |-> issue.Days,
     Severity |-> issue.Severity, ExpiredDate |-> issue.ExpiredDate]

RECURSIVE DateIssues(_)
\* the issues that come from the date, in order, without the record
DateIssues(list) ==
    IF list = <<>> THEN <<>>
    ELSE (IF Head(list).Type \in {"invalid_date", "expired", "expiring_soon"}
             \/ Head(list).Message = "Missing expiration date"
             THEN <<Bare(Head(list))>> ELSE <<>>)
            \o DateIssues(Tail(list))

\* C12: a record with a blank reason gets exactly one missing-reason issue,
\* of warning severity, and a record with a reason gets none; the issues
\* that come from the date are those of the same record with a reason.
C12_BlankReasonWarnsAndContinues ==
    Validated =>
        /\ Cardinality(IssuesOfKind("missing_reason")) =
              (IF Blank(Record.Reason) THEN 1 ELSE 0)
        /\ \A i \in IssuesOfKind("missing_reason") :
              issues[i].Severity = SeverityWarning
        /\ DateIssues(issues) =
              DateIssues(validateSuppression(
                            currentTime, [Record EXCEPT !.Reason = <<"o", "k">>]))

\* C12 witness: a record with a blank reason whose date ran out got the
\* missing-reason warning and the expired issue
C12_Witness ==
    /\ Validated /\ Blank(Record.Reason) /\ Record.Reason # <<>>
    /\ IssuesOfKind("missing_reason") # {}
    /\ IssuesOfKind("expired") # {}

\* C13 as stated: a record with a blank identifier gets an error issue of a
\* kind of its own, which is not the missing-date kind nor any other kind
\* the date and reason checks use.
C13_IdentifierKindDistinct ==
    (Validated /\ Blank(Record.Vulnerability)) =>
        \E i \in 1..Len(issues) :
            /\ issues[i].Severity = SeverityError
            /\ issues[i].Type \notin DateKinds \cup {"missing_reason"}

\* the instant the validator parsed from the record's ignoreUntil (<<>> when
\* it does not parse)
Parsed == parseDate(Record.IgnoreUntil)

\* the whole days from instant u to a later instant t: the floor of the
\* hours between them over 24
WholeDays(t, u) ==
    (t.day - u.day)
        - (IF t.sec < u.sec \/ (t.sec = u.sec /\ t.nsec < u.nsec) THEN 1 ELSE 0)

\* the characters of 2023-01-01 and of 2025-01-20
Date20230101 == <<"2", "0", "2", "3", "-", "0", "1", "-", "0", "1">>
Date20250120 == <<"2", "0", "2", "5", "-", "0", "1", "-", "2", "0">>

\* C14 as stated: a record whose parsed expiration instant is before the
\* reference time gets exactly one expired issue, of error severity, with
\* the parsed instant and the whole days since it as the elapsed days, and
\* no expiring-soon issue; for 2023-01-01 the elapsed days are 730 give or
\* take 1.
C14_ExpiredElapsedDays ==
    (Validated /\ Parsed # <<>> /\ ~Blank(Record.IgnoreUntil)
        /\ After(currentTime, Parsed[1])) =>
        /\ Cardinality(IssuesOfKind("expired")) = 1
        /\ \A i \in IssuesOfKind("expired") :
              /\ issues[i].Severity = SeverityError
              /\ issues[i].ExpiredDate = Parsed
              /\ issues[i].Days = WholeDays(currentTime, Parsed[1])
              /\ Record.IgnoreUntil = Date20230101 => issues[i].Days \in 729..731
        /\ IssuesOfKind("expiring_soon") = {}

\* C15: a record whose parsed expiration instant is not before the reference
\* time gets no expired issue; it gets exactly one expiring-soon issue, of
\* warning severity, with the whole days until the instant as the days
\* remaining, when these are 1 to 30, and none when they are more than 30;
\* for 2025-01-20 the days remaining are 19.
C15_ExpiringSoonWindow ==
    (Validated /\ Parsed # <<>> /\ ~Blank(Record.IgnoreUntil)
        /\ ~After(currentTime, Parsed[1])) =>
        LET remaining == WholeDays(Parsed[1], currentTime)
        IN  /\ IssuesOfKind("expired") = {}
            /\ (remaining >= 1 /\ remaining <= 30) =>
                  /\ Cardinality(IssuesOfKind("expiring_soon")) = 1
                  /\ \A i \in IssuesOfKind("expiring_soon") :
                        /\ issues[i].Severity = SeverityWarning
                        /\ issues[i].Days = remaining
            /\ remaining > 30 => IssuesOfKind("expiring_soon") = {}
            /\ Record.IgnoreUntil = Date20250120 =>
                  \E i \in IssuesOfKind("expiring_soon") : issues[i].Days = 19

\* C15 witness: the record that runs out on 2025-01-20 got the expiring-soon
\* warning with 19 days remaining
C15_Witness ==
    /\ Validated /\ Record.IgnoreUntil = Date20250120
    /\ \E i \in IssuesOfKind("expiring_soon") :
          issues[i].Days = 19 /\ issues[i].Severity = SeverityWarning

\* ------------------------------------- one date written in every format
\* the calendar dates written: every month of a leap year and of the
\* reference year, on days at and around the ends of the months
CalendarDates ==
    {date \in [year : {2024, 2025}, month : 1..12,
               day : {1, 4, 12, 13, 28, 29, 30, 31}] :
        date.day <= daysIn(date.month, date.year)}

\* the decimal digit d as a character
DigitChar(d) ==
    CASE d = 0 -> "0" [] d = 1 -> "1" [] d = 2 -> "2" [] d = 3 -> "3"
      [] d = 4 -> "4" [] d = 5 -> "5" [] d = 6 -> "6" [] d = 7 -> "7"
      [] d = 8 -> "8" [] d = 9 -> "9"

\* n written with two digits, and with four
TwoDigits(n) == <<DigitChar(n \div 10), DigitChar(n % 10)>>
FourDigits(n) == TwoDigits(n \div 100) \o TwoDigits(n % 100)

\* midnight UTC of the date written in the k-th recognized format, as
\* Time.Format writes it
WriteDate(k, date) ==
    LET y == FourDigits(date.year)
        m == TwoDigits(date.month)
        d == TwoDigits(date.day)
        midnight == <<"T", "0", "0", ":", "0", "0", ":", "0", "0">>
    IN  CASE k = 1 -> y \o <<"-">> \o m \o <<"-">> \o d
          [] k = 2 -> y \o <<"-">> \o m \o <<"-">> \o d \o <<"Z">>
          [] k = 3 -> y \o <<"-">> \o m \o <<"-">> \o d \o midnight \o <<"Z">>
          [] k = 4 -> y \o <<"-">> \o m \o <<"-">> \o d \o midnight \o <<"Z">>
          [] k = 5 -> y \o <<"-">> \o m \o <<"-">> \o d \o midnight
          [] k = 6 -> y \o <<"/">> \o m \o <<"/">> \o d
          [] k = 7 -> m \o <<"/">> \o d \o <<"/">> \o y
          [] k = 8 -> d \o <<"-">> \o m \o <<"-">> \o y

\* the records handed to the validator: a calendar date in one format
WrittenInputs ==
    {[vulnerability |-> <<"C", "V", "E">>, reason |-> <<"o", "k">>,
      ignoreUntil |-> WriteDate(k, date)] :
        k \in 1..Len(formats), date \in CalendarDates}

\* Validate called on one file with one record whose date is written
InitFormats ==
    /\ scope = ValidateScope
    /\ scanners = <<>> /\ parsers = <<>> /\ notifiers = <<>>
    /\ validators = <<"expiry">>
    /\ pc = "Validate"
    /\ config = NoConfig
    /\ ctxDone = FALSE
    /\ report = EmptyReport
    /\ si = 0 /\ walk = <<>> /\ wi = 0 /\ foundFiles = <<>> /\ allFiles = <<>>
    /\ fi = 0
    /\ suppressionFiles \in
          {<<SuppressionFile("a/suppressions.xml", <<e>>)>> : e \in WrittenInputs}
    /\ validatorsToRun = <<1>> /\ vi = 1 /\ sk = 0
    /\ issues = <<>> /\ allIssues = <<>>
    /\ notifiersToUse = <<>> /\ ni = 0
    /\ retReport = <<>> /\ retErr = ""
    /\ calls = <<Call("Validate", 1, "", <<>>)>>
    /\ cancelAt = NotCancelled

NextFormats ==
    \/ ValidateNext
    \/ ValidateReturn

SpecFormats == InitFormats /\ [][NextFormats]_vars

\* C16: a calendar date written in any of the 8 formats parses to midnight
\* UTC of that date, the instant the first format gives, and the record gets
\* the issues the record with the date in the first format gets.
C16_FormatsAgree ==
    Validated =>
        \A k \in 1..8, date \in CalendarDates :
            Record.IgnoreUntil = WriteDate(k, date) =>
                /\ Parsed = <<Instant(DayNumber(date.year, date.month, date.day),
                                      0, 0)>>
                /\ Parsed = parseDate(WriteDate(1, date))
                /\ DateIssues(issues) =
                      DateIssues(validateSuppression(
                          currentTime,
                          [Record EXCEPT !.IgnoreUntil = WriteDate(1, date)]))

\* C16 witness: 2025-01-04 written day first, 04-01-2025, parsed to the 4th
\* of January and the record got the expiring-soon warning with 3 days
C16_Witness ==
    /\ Validated
    /\ Record.IgnoreUntil = WriteDate(8, [year |-> 2025, month |-> 1, day |-> 4])
    /\ Parsed = <<Instant(DayNumber(2025, 1, 4), 0, 0)>>
    /\ \E i \in IssuesOfKind("expiring_soon") : issues[i].Days = 3

\* ------------------------------------------------- the OWASP XML parser
MaxChildren == 3
MaxElements == 2

\* the sub-elements a suppress element may hold: the matcher kind, the
\* character data and the regex attribute
Child(kind, value, regex) == [kind |-> kind, value |-> value, regex |-> regex]

Children ==
    { Child("cve", <<" ", "C", "1", " ">>, <<>>),
      Child("cve", <<" ", " ">>, <<>>),
      Child("cpe", <<"P">>, <<>>),
      Child("packageUrl", <<"U">>, <<"T", "r", "u", "e">>),
      Child("filePath", <<"F">>, <<>>),
      Child("sha1", <<"S">>, <<>>),
      Child("gav", <<"G">>, <<"n", "o">>),
      Child("vulnerabilityName", <<"V">>, <<>>),
      Child("cvssBelow", <<"7", ".", "0">>, <<>>),
      Child("cvssBelow", <<" ", "9">>, <<>>),
      Child("cvssBelow", <<"h", "i">>, <<>>) }

\* the until attribute and the notes of the k-th suppress element of a
\* document; the CDATA markers are single characters here
UntilOf(k) ==
    IF k = 1 THEN <<" ", "2", "0", "2", "5", "-", "0", "6", "-", "0", "1", " ">>
    ELSE <<"2", "0", "2", "6", "-", "0", "1", "-", "0", "1", "Z">>

NotesOf(k) ==
    IF k = 1 THEN <<" ", "<![CDATA[", "n", "1", "]]>", " ">>
    ELSE <<"n", "2">>

\* a document: whether it is empty, whether xml.Unmarshal accepts it, and
\* its suppress elements, each the sequence of its sub-elements
Document(empty, wellFormed, elements) ==
    [empty |-> empty, wellFormed |-> wellFormed,
     elements |-> [k \in 1..Len(elements) |->
                      [until |-> UntilOf(k), notes |-> NotesOf(k),
                       children |-> elements[k]]]]

\* the documents parsed: one element with up to MaxChildren sub-elements,
\* up to MaxElements elements with at most one sub-element each, the empty
\* file and a file that is not XML
Documents ==
    {Document(FALSE, TRUE, <<c>>) : c \in SeqsUpTo(Children, MaxChildren)}
        \cup {Document(FALSE, TRUE, e) :
                 e \in SeqsUpTo(SeqsUpTo(Children, 1), MaxElements)}
        \cup {Document(TRUE, TRUE, <<>>), Document(FALSE, FALSE, <<>>)}

\* the character data of the sub-elements of one kind, in document order
RECURSIVE OfKind(_, _)
OfKind(children, kind) ==
    IF children = <<>> THEN <<>>
    ELSE (IF Head(children).kind = kind THEN <<Head(children)>> ELSE <<>>)
            \o OfKind(Tail(children), kind)

\* xml.Unmarshal into owaspSuppress: a slice field collects its
\* sub-elements, the string field CVSSBelow keeps the last one
owaspSuppress(element) ==
    LET cvss == OfKind(element.children, "cvssBelow")
    IN  [Until |-> element.until,
         Notes |-> element.notes,
         CVE |-> OfKind(element.children, "cve"),
         CPE |-> OfKind(element.children, "cpe"),
         PackageURL |-> OfKind(element.children, "packageUrl"),
         FilePath |-> OfKind(element.children, "filePath"),
         SHA1 |-> OfKind(element.children, "sha1"),
         GAV |-> OfKind(element.children, "gav"),
         CVSSBelow |-> IF cvss = <<>> THEN <<>> ELSE cvss[Len(cvss)].value,
         VulnerabilityName |-> OfKind(element.children, "vulnerabilityName")]

\* strings.ToLower on the letters the regex attribute holds
LowerChar(c) ==
    CASE c = "T" -> "t" [] c = "R" -> "r" [] c = "U" -> "u" [] c = "E" -> "e"
      [] OTHER -> c

ToLower(str) == [i \in 1..Len(str) |-> LowerChar(str[i])]

\* strings.ReplaceAll(str, marker, "") for a marker of one character
RECURSIVE Without(_, _)
Without(str, marker) ==
    IF str = <<>> THEN <<>>
    ELSE (IF Head(str) = marker THEN <<>> ELSE <<Head(str)>>)
            \o Without(Tail(str), marker)

\* convertSuppression: the notes, trimmed and without a CDATA wrapper
CleanNotes(notes) ==
    LET trimmed == TrimSpace(notes)
    IN  IF InSeq("<![CDATA[", trimmed)
           THEN TrimSpace(Without(Without(trimmed, "<![CDATA["), "]]>"))
           ELSE trimmed

\* strconv.ParseFloat and fmt.Sprintf("%.1f") on a plain decimal with at
\* most one digit after the point: <<>> for the error, else the text
FormatFloat(str) ==
    LET whole == DigitRun(str, 1)
        rest  == Drop(str, whole)
        frac  == IF rest = <<>> \/ rest = <<".">> THEN <<"0">>
                 ELSE <<rest[2]>>
        plain == /\ whole >= 1
                 /\ \/ rest = <<>>
                    \/ rest = <<".">>
                    \/ Len(rest) = 2 /\ rest[1] = "." /\ rest[2] \in Digits
    IN  IF plain THEN <<SubSeq(str, 1, whole) \o <<".">> \o frac>> ELSE <<>>

\* createBaseSuppression, with the fields convertSuppression then sets:
\* the matcher kind with its value and regex flag, and Vulnerability
OwaspSuppression(suppress, filePath, lineNumber, kind, value, regex, vulnerability) ==
    [Vulnerability |-> vulnerability,
     Reason |-> CleanNotes(suppress.Notes),
     Notes |-> CleanNotes(suppress.Notes),
     IgnoreUntil |-> TrimSpace(suppress.Until),
     FilePath |-> filePath,
     LineNumber |-> lineNumber,
     Format |-> "owasp",
     Kind |-> kind, Value |-> value, Regex |-> regex]

\* one loop of convertSuppression: a Suppression for each sub-element of
\* the kind whose trimmed value is not empty
RECURSIVE MatcherLoop(_, _, _, _, _, _)
MatcherLoop(suppress, filePath, lineNumber, kind, prefix, list) ==
    IF list = <<>> THEN <<>>
    ELSE LET value == TrimSpace(Head(list).value)
             regex == kind \in {"packageUrl", "filePath", "gav",
                                "vulnerabilityName"}
                      /\ ToLower(Head(list).regex) = <<"t", "r", "u", "e">>
         IN  (IF value # <<>>
                 THEN <<OwaspSuppression(suppress, filePath, lineNumber, kind,
                                         value, regex, prefix \o value)>>
                 ELSE <<>>)
                \o MatcherLoop(suppress, filePath, lineNumber, kind, prefix,
                               Tail(list))

\* convertSuppression up to the CVSS threshold: the loops over CVE, CPE,
\* PackageURL, FilePath, SHA1, GAV and VulnerabilityName, then CVSSBelow
MatcherSuppressions(suppress, filePath, lineNumber) ==
    LET cvss == IF TrimSpace(suppress.CVSSBelow) = <<>> THEN <<>>
                ELSE FormatFloat(TrimSpace(suppress.CVSSBelow))
    IN  MatcherLoop(suppress, filePath, lineNumber, "cve", <<>>, suppress.CVE)
        \o MatcherLoop(suppress, filePath, lineNumber, "cpe", <<>>, suppress.CPE)
        \o MatcherLoop(suppress, filePath, lineNumber, "packageUrl",
                       <<"packageUrl:">>, suppress.PackageURL)
        \o MatcherLoop(suppress, filePath, lineNumber, "filePath",
                       <<"filePath:">>, suppress.FilePath)
        \o MatcherLoop(suppress, filePath, lineNumber, "sha1", <<"sha1:">>,
                       suppress.SHA1)
        \o MatcherLoop(suppress, filePath, lineNumber, "gav", <<"gav:">>,
                       suppress.GAV)
        \o MatcherLoop(suppress, filePath, lineNumber, "vulnerabilityName",
                       <<>>, suppress.VulnerabilityName)
        \o (IF cvss = <<>> THEN <<>>
            ELSE <<OwaspSuppression(suppress, filePath, lineNumber, "cvssBelow",
                                    cvss[1], FALSE,
                                    <<"cvssBelow:">> \o cvss[1])>>)

\* convertSuppression without the generic entry
convertSuppressionNoGeneric(suppress, filePath, lineNumber) ==
    MatcherSuppressions(suppress, filePath, lineNumber)

\* OwaspParser.convertSuppression
convertSuppression(suppress, filePath, lineNumber) ==
    LET result == MatcherSuppressions(suppress, filePath, lineNumber)
    IN  IF Len(result) = 0
           THEN <<OwaspSuppression(suppress, filePath, lineNumber, "", <<>>,
                                   FALSE, <<"unknown">>)>>
           ELSE result

\* OwaspParser.Parse, the loop over the suppress elements from the i-th on
RECURSIVE ConvertFrom(_, _, _)
ConvertFrom(elements, filePath, i) ==
    IF i > Len(elements) THEN <<>>
    ELSE convertSuppression(owaspSuppress(elements[i]), filePath, i)
            \o ConvertFrom(elements, filePath, i + 1)

\* OwaspParser.Parse on the content of a file: ok is whether it returns no
\* error, file the SuppressionFile it returns
Parse(filePath, content) ==
    IF content.empty
       THEN [ok |-> TRUE, file |-> [Path |-> filePath, Suppressions |-> <<>>]]
    ELSE IF ~content.wellFormed
       THEN [ok |-> FALSE, file |-> <<>>]
    ELSE [ok |-> TRUE,
          file |-> [Path |-> filePath,
                    Suppressions |-> ConvertFrom(content.elements, filePath, 1)]]

\* parseFiles about to hand the one discovered file to the OWASP parser
InitOwasp ==
    /\ scope = ParseScope
    /\ scanners = <<1>> /\ parsers = <<1>>
    /\ validators = <<>> /\ notifiers = <<>>
    /\ pc = "parseLoop"
    /\ config = NoConfig
    /\ ctxDone = FALSE
    /\ report = EmptyReport
    /\ si = 1 /\ walk = <<>> /\ wi = 0 /\ foundFiles = <<>>
    /\ allFiles = <<"a/suppressions.xml">>
    /\ fi = 1 /\ suppressionFiles = <<>>
    /\ validatorsToRun = <<>> /\ vi = 0 /\ sk = 0
    /\ issues = <<>> /\ allIssues = <<>>
    /\ notifiersToUse = <<>> /\ ni = 0
    /\ retReport = <<>> /\ retErr = ""
    /\ calls = <<>>
    /\ cancelAt = NotCancelled

\* the loop body of parseFiles with the OWASP parser: Parse reads the content
\* of the file and converts it
OwaspParse(content) ==
    /\ pc = "parseLoop" /\ fi <= Len(allFiles)
    /\ LET parsed == Parse(allFiles[fi], content)
       IN  /\ calls' = Append(calls, Call("OwaspParse", 1, allFiles[fi],
                                          <<content>>))
           /\ IF parsed.ok
                 THEN /\ suppressionFiles' = Append(suppressionFiles, parsed.file)
                      /\ fi' = fi + 1
                      /\ UNCHANGED <<pc, retVars>>
                 ELSE /\ Fail("failed to parse file")
                      /\ UNCHANGED <<fi, suppressionFiles>>
    /\ UNCHANGED <<registries, config, ctxDone, report, scanVars,
                   validVars, notifVars, cancelAt>>

NextOwasp == \E content \in Documents : OwaspParse(content)

SpecOwasp == InitOwasp /\ [][NextOwasp]_vars

\* the document the OWASP parser was handed, and what Parse returned for it
OwaspParsed == calls # <<>> /\ calls[Len(calls)].op = "OwaspParse"
OwaspInput == calls[Len(calls)].val[1]
OwaspAccepted == OwaspParsed /\ Len(suppressionFiles) = 1
OwaspRecords == suppressionFiles[1].Suppressions

\* a matcher sub-element is populated when it holds a value, a CVSS
\* threshold when it holds a number
Populated(child) ==
    /\ TrimSpace(child.value) # <<>>
    /\ child.kind = "cvssBelow" => FormatFloat(TrimSpace(child.value)) # <<>>

PopulatedIn(element) ==
    Cardinality({i \in 1..Len(element.children) : Populated(element.children[i])})

\* the positions in the result of the Suppressions made from the k-th element
RecordsOf(k) ==
    {i \in 1..Len(OwaspRecords) : OwaspRecords[i].LineNumber = k}

\* C17: the parser returns exactly one Suppression for each populated
\* matcher sub-element of a suppress element (cve, cpe, packageUrl,
\* filePath, sha1, gav, cvssBelow, vulnerabilityName, repeated or not), each
\* carrying the until attribute and the notes of that element; an element
\* with one cve and one cpe gives exactly two
C17_OnePerPopulatedMatcher ==
    OwaspAccepted =>
        \A k \in 1..Len(OwaspInput.elements) :
            LET element == OwaspInput.elements[k]
            IN  PopulatedIn(element) > 0 =>
                    /\ Cardinality(RecordsOf(k)) = PopulatedIn(element)
                    /\ \A i \in RecordsOf(k) :
                          /\ OwaspRecords[i].Kind # ""
                          /\ OwaspRecords[i].IgnoreUntil = TrimSpace(element.until)
                          /\ OwaspRecords[i].Notes = CleanNotes(element.notes)

\* C18: every suppress element of a file that parsed yields at least one
\* Suppression, in the order of the elements; an element with no populated
\* matcher yields exactly one, whose identifier is "unknown", carrying the
\* element's until and notes
C18_NoElementDropped ==
    OwaspAccepted =>
        /\ \A k \in 1..Len(OwaspInput.elements) :
              LET element == OwaspInput.elements[k]
              IN  /\ RecordsOf(k) # {}
                  /\ PopulatedIn(element) = 0 =>
                        /\ Cardinality(RecordsOf(k)) = 1
                        /\ \A i \in RecordsOf(k) :
                              /\ OwaspRecords[i].Vulnerability = <<"unknown">>
                              /\ OwaspRecords[i].IgnoreUntil = TrimSpace(element.until)
                              /\ OwaspRecords[i].Reason = CleanNotes(element.notes)
        /\ \A i \in 1..Len(OwaspRecords) :
              OwaspRecords[i].LineNumber \in 1..Len(OwaspInput.elements)
        /\ \A i, j \in 1..Len(OwaspRecords) :
              i < j => OwaspRecords[i].LineNumber <= OwaspRecords[j].LineNumber

\* an element with no sub-element followed by one with a cpe: two
\* Suppressions, the first the generic one
C18_Witness ==
    /\ OwaspAccepted
    /\ Len(OwaspInput.elements) = 2
    /\ OwaspInput.elements[1].children = <<>>
    /\ PopulatedIn(OwaspInput.elements[2]) = 1
    /\ Len(OwaspRecords) = 2
    /\ OwaspRecords[1].Vulnerability = <<"unknown">>
    /\ OwaspRecords[1].Reason = <<"n", "1">>
    /\ OwaspRecords[2].Vulnerability = <<"P">>

\* ------------------------------------------------ the file system scanner
MaxEntries == 3
MaxPatterns == 2

\* filepath.Join of a directory and a name
Join(dir, name) == dir \o <<"/">> \o name

RECURSIVE LastSeparator(_, _)
\* the index of the last separator of path at or before i, 0 when none
LastSeparator(path, i) ==
    IF i = 0 THEN 0
    ELSE IF path[i] = "/" THEN i
    ELSE LastSeparator(path, i - 1)

\* filepath.Base of a cleaned path: the last element
Base(path) ==
    IF path = <<>> THEN <<".">>
    ELSE IF path = <<"/">> THEN path
    ELSE Drop(path, LastSeparator(path, Len(path)))

\* strings.Contains
Contains(str, substr) ==
    \E i \in 1..(Len(str) + 1) :
        /\ i + Len(substr) - 1 <= Len(str)
        /\ SubSeq(str, i, i + Len(substr) - 1) = substr

RECURSIVE Match(_, _)
\* filepath.Match for a pattern of literal characters, * and ?: neither
\* crosses a separator; a pattern with an unclosed [ is malformed and its
\* error is dropped by the callers, which see matched = false
Match(pattern, name) ==
    IF InSeq("[", pattern) THEN FALSE
    ELSE IF pattern = <<>> THEN name = <<>>
    ELSE IF Head(pattern) = "*"
        THEN \/ Match(Tail(pattern), name)
             \/ name # <<>> /\ Head(name) # "/" /\ Match(pattern, Tail(name))
    ELSE IF Head(pattern) = "?"
        THEN name # <<>> /\ Head(name) # "/" /\ Match(Tail(pattern), Tail(name))
    ELSE name # <<>> /\ Head(name) = Head(pattern)
            /\ Match(Tail(pattern), Tail(name))

\* whether path lies below the directory dir
IsBelow(path, dir) ==
    /\ Len(path) > Len(dir) + 1
    /\ SubSeq(path, 1, Len(dir) + 1) = dir \o <<"/">>

\* shouldExcludeDir: the directories never descended into
commonExcludes ==
    << <<".", "g", "i", "t">>,
       <<".", "s", "v", "n">>,
       <<".", "h", "g">>,
       <<"n", "o", "d", "e", "_", "m", "o", "d", "u", "l", "e", "s">>,
       <<".", "v", "s", "c", "o", "d", "e">>,
       <<".", "i", "d", "e", "a">> >>

\* a FileSystemScanner as NewFileSystemScanner, SetExcludePatterns and
\* SetIncludePatterns leave it
FileSystemScanner(supportedFiles, excludePatterns, includePatterns) ==
    [supportedFiles |-> supportedFiles,
     excludePatterns |-> excludePatterns,
     includePatterns |-> includePatterns]

SupportedFileLists == { <<<<"a", ".", "x">>>>, <<<<"b", ".", "y">>, <<"a", ".", "x">>>> }

\* a glob on the base name, one on the full path of a file of the root, one
\* on the full path of a file one directory down, and a malformed one
IncludePatterns ==
    { <<"*", ".", "x">>,
      <<"/", "r", "/", "*">>,
      <<"/", "r", "/", "*", "/", "a", ".", "x">>,
      <<"[">> }

\* a directory name, a glob on the base name, a glob on a full path, a
\* piece of a path that no glob matches whole, and the empty pattern
ExcludePatterns ==
    { <<"d">>,
      <<"*", ".", "y">>,
      <<"/", "r", "/", "a", ".", "?">>,
      <<"r", "/", "d">>,
      <<>> }

\* the scanners: at most MaxPatterns patterns in the two lists together
FileSystemScanners ==
    {FileSystemScanner(c[1], c[2], c[3]) :
        c \in {t \in SupportedFileLists
                       \X SeqsUpTo(ExcludePatterns, MaxPatterns)
                       \X SeqsUpTo(IncludePatterns, MaxPatterns) :
                   Len(t[2]) + Len(t[3]) <= MaxPatterns}}

\* what WalkDir hands to its callback: the path, whether the entry is a
\* directory, and whether the call reports an error for it
Entry(path, isDir, err) == [path |-> path, isDir |-> isDir, err |-> err]

\* a node of a tree: a file, a directory, or a directory that cannot be
\* read (WalkDir calls the callback for it a second time, with the error)
Node(path, isDir, readable) == [path |-> path, isDir |-> isDir, readable |-> readable]

Roots == { <<"/", "r">>, <<"/", ".", "h", "g">> }

\* the nodes a tree below root may hold, in the lexical order of WalkDir: a
\* directory named x with a file and a directory with a file in it, two
\* files, a directory d with a file, and an unreadable directory
Universe(root, x) ==
    LET X == Join(root, x)
        D == Join(root, <<"d">>)
        XPart == << Node(X, TRUE, TRUE),
                    Node(Join(X, <<"a", ".", "x">>), FALSE, TRUE),
                    Node(Join(X, <<"d">>), TRUE, TRUE),
                    Node(Join(Join(X, <<"d">>), <<"a", ".", "x">>), FALSE, TRUE) >>
        Mid   == << Node(Join(root, <<"a", ".", "x">>), FALSE, TRUE),
                    Node(Join(root, <<"b", ".", "y">>), FALSE, TRUE),
                    Node(D, TRUE, TRUE),
                    Node(Join(D, <<"a", ".", "x">>), FALSE, TRUE) >>
        U     == << Node(Join(root, <<"u">>), TRUE, FALSE) >>
    IN  IF x[1] = "." THEN XPart \o Mid \o U ELSE Mid \o XPart \o U

\* the choices of nodes that make a tree: with a node, the directories
\* above it
Closed(nodes, chosen) ==
    \A i \in chosen : \A j \in 1..Len(nodes) :
        (nodes[j].isDir /\ IsBelow(nodes[i].path, nodes[j].path)) => j \in chosen

RECURSIVE Visits(_, _, _)
\* the calls WalkDir makes for the chosen nodes from the i-th on when the
\* callback never skips a directory
Visits(nodes, chosen, i) ==
    IF i > Len(nodes) THEN <<>>
    ELSE (IF i \notin chosen THEN <<>>
          ELSE IF nodes[i].readable
             THEN <<Entry(nodes[i].path, nodes[i].isDir, FALSE)>>
             ELSE <<Entry(nodes[i].path, nodes[i].isDir, FALSE),
                    Entry(nodes[i].path, nodes[i].isDir, TRUE)>>)
            \o Visits(nodes, chosen, i + 1)

\* the trees scanned: a root and at most MaxEntries nodes below it
Trees ==
    {<<Entry(root, TRUE, FALSE)>> \o Visits(Universe(root, commonExcludes[x]), chosen, 1) :
        <<root, x, chosen>> \in
            {t \in Roots \X (1..Len(commonExcludes)) \X SUBSET (1..9) :
                /\ Cardinality(t[3]) <= MaxEntries
                /\ Closed(Universe(t[1], commonExcludes[t[2]]), t[3])}}

\* FileSystemScanner.isSupportedFile
isSupportedFile(s, fileName) == InSeq(fileName, s.supportedFiles)

\* shouldExcludeDir without the common directories
shouldExcludeDirPatternsOnly(s, dirPath) ==
    \E k \in 1..Len(s.excludePatterns) :
        \/ Match(s.excludePatterns[k], dirPath)
        \/ Match(s.excludePatterns[k], Base(dirPath))

\* FileSystemScanner.shouldExcludeDir
shouldExcludeDir(s, dirPath) ==
    \/ InSeq(Base(dirPath), commonExcludes)
    \/ \E k \in 1..Len(s.excludePatterns) :
          \/ Match(s.excludePatterns[k], dirPath)
          \/ Match(s.excludePatterns[k], Base(dirPath))

\* FileSystemScanner.shouldIncludeFile
shouldIncludeFile(s, filePath) ==
    \/ Len(s.includePatterns) = 0
    \/ \E k \in 1..Len(s.includePatterns) :
          \/ Match(s.includePatterns[k], filePath)
          \/ Match(s.includePatterns[k], Base(filePath))

\* shouldExcludeFile without the substring test
shouldExcludeFileGlobOnly(s, filePath) ==
    \E k \in 1..Len(s.excludePatterns) :
        \/ Match(s.excludePatterns[k], filePath)
        \/ Match(s.excludePatterns[k], Base(filePath))

\* FileSystemScanner.shouldExcludeFile
shouldExcludeFile(s, filePath) ==
    \E k \in 1..Len(s.excludePatterns) :
        \/ Match(s.excludePatterns[k], filePath)
        \/ Match(s.excludePatterns[k], Base(filePath))
        \/ Contains(filePath, s.excludePatterns[k])

\* Scan is called on a scanner with the absolute path of the root of a tree;
\* walk holds the calls WalkDir has to make, none when the root is missing
InitScan ==
    /\ scope = ScanScope
    /\ scanners \in {<<s>> : s \in FileSystemScanners}
    /\ parsers = <<>> /\ validators = <<>> /\ notifiers = <<>>
    /\ pc = "Scan"
    /\ config = NoConfig
    /\ ctxDone = FALSE
    /\ report = EmptyReport
    /\ si = 1
    /\ walk \in Trees \cup {<<>>}
    /\ wi = 0 /\ foundFiles = <<>> /\ allFiles = <<>>
    /\ fi = 0 /\ suppressionFiles = <<>>
    /\ validatorsToRun = <<>> /\ vi = 0 /\ sk = 0
    /\ issues = <<>> /\ allIssues = <<>>
    /\ notifiersToUse = <<>> /\ ni = 0
    /\ retReport = <<>> /\ retErr = ""
    /\ calls = <<>>
    /\ cancelAt = NotCancelled

\* FileSystemScanner.Scan up to the walk: the root must exist
ScanStat ==
    /\ pc = "Scan"
    /\ IF walk = <<>>
          THEN /\ Fail("directory does not exist")
               /\ UNCHANGED wi
          ELSE /\ pc' = "WalkDirFunc" /\ wi' = 1
               /\ UNCHANGED retVars
    /\ UNCHANGED <<registries, config, ctxDone, report, si, walk, foundFiles,
                   allFiles, parseVars, validVars, notifVars, history>>

\* the caller cancels the context during the walk
ScanCancel ==
    /\ pc = "WalkDirFunc" /\ ~ctxDone
    /\ ctxDone' = TRUE
    /\ UNCHANGED <<registries, pc, config, report, scanVars, parseVars,
                   validVars, notifVars, retVars, history>>

\* the position of the walk after the callback returned SkipDir for entry i:
\* past the entry and everything below it
AfterSkipDir(i) ==
    LET below == {j \in i..Len(walk) :
                     \/ walk[j].path = walk[i].path
                     \/ IsBelow(walk[j].path, walk[i].path)}
    IN  i + Cardinality(below)

\* the callback Scan passes to WalkDir, called for the next entry
WalkDirFunc ==
    /\ pc = "WalkDirFunc" /\ wi <= Len(walk)
    /\ LET s == scanners[si]
           path == walk[wi].path
       IN  IF ctxDone
              THEN /\ Fail("error walking directory")
                   /\ UNCHANGED <<wi, foundFiles>>
           ELSE IF walk[wi].err
              THEN /\ wi' = wi + 1
                   /\ UNCHANGED <<pc, foundFiles, retVars>>
           ELSE IF walk[wi].isDir
              THEN /\ wi' = IF shouldExcludeDir(s, path) THEN AfterSkipDir(wi)
                            ELSE wi + 1
                   /\ UNCHANGED <<pc, foundFiles, retVars>>
           ELSE /\ foundFiles' =
                      IF /\ isSupportedFile(s, Base(path))
                         /\ shouldIncludeFile(s, path)
                         /\ ~shouldExcludeFile(s, path)
                         THEN Append(foundFiles, path)
                         ELSE foundFiles
                /\ wi' = wi + 1
                /\ UNCHANGED <<pc, retVars>>
    /\ calls' = Append(calls, Call("WalkDirFunc", si, walk[wi].path, <<wi>>))
    /\ UNCHANGED <<registries, config, ctxDone, report, si, walk, allFiles,
                   parseVars, validVars, notifVars, cancelAt>>

\* WalkDir is through: Scan returns foundFiles
ScanFound ==
    /\ pc = "WalkDirFunc" /\ wi > Len(walk)
    /\ pc' = "done"
    /\ retReport' = <<foundFiles>>
    /\ retErr' = ""
    /\ UNCHANGED <<registries, config, ctxDone, report, scanVars, parseVars,
                   validVars, notifVars, history>>

NextScan == ScanStat \/ ScanCancel \/ WalkDirFunc \/ ScanFound

SpecScan == InitScan /\ [][NextScan]_vars

\* Scan returned a list of files, and the list
ScanReturned == pc = "done" /\ retErr = "" /\ Len(retReport) = 1 /\ walk # <<>>
ScanResult == retReport[1]

\* the callback was called for the k-th entry of the tree
Reached(k) ==
    \E c \in 1..Len(calls) :
        calls[c].op = "WalkDirFunc" /\ calls[c].val = <<k>>

\* the directories the claim names
WellKnownDirs ==
    { <<".", "g", "i", "t">>, <<".", "s", "v", "n">>, <<".", "h", "g">>,
      <<"n", "o", "d", "e", "_", "m", "o", "d", "u", "l", "e", "s">>,
      <<".", "v", "s", "c", "o", "d", "e">>, <<".", "i", "d", "e", "a">> }

\* the files of the tree below a directory with one of these names
BelowWellKnownDir ==
    {k \in 1..Len(walk) :
        /\ ~walk[k].isDir
        /\ \E j \in 1..Len(walk) :
              /\ walk[j].isDir
              /\ Base(walk[j].path) \in WellKnownDirs
              /\ IsBelow(walk[k].path, walk[j].path)}

\* C19: whatever the tree, the scanner's supported names and its include
\* and exclude patterns, no file below a directory named .git, .svn, .hg,
\* node_modules, .vscode or .idea is among the files found, during the walk
\* or in the list Scan returns
C19_NothingBelowWellKnownDirs ==
    \A k \in BelowWellKnownDir :
        /\ ~InSeq(walk[k].path, foundFiles)
        /\ ScanReturned => ~InSeq(walk[k].path, ScanResult)

\* a tree with a supported file in the root and one in a well-known
\* directory, both matched by an include pattern: only the first is returned
C19_Witness ==
    /\ ScanReturned
    /\ Len(scanners[1].includePatterns) > 0
    /\ ScanResult # <<>>
    /\ \E k \in BelowWellKnownDir :
          /\ InSeq(Base(walk[k].path), scanners[1].supportedFiles)
          /\ \E i \in 1..Len(scanners[1].includePatterns) :
                Match(scanners[1].includePatterns[i], walk[k].path)
          /\ ~InSeq(walk[k].path, ScanResult)

\* the three conditions on a file, as the claim words them
NameSupported(s, path) ==
    \E i \in 1..Len(s.supportedFiles) : s.supportedFiles[i] = Base(path)

SomeIncludeMatches(s, path) ==
    \/ s.includePatterns = <<>>
    \/ \E i \in 1..Len(s.includePatterns) :
          \/ Match(s.includePatterns[i], path)
          \/ Match(s.includePatterns[i], Base(path))

SomeExcludeMatches(s, path) ==
    \E i \in 1..Len(s.excludePatterns) :
        \/ Match(s.excludePatterns[i], path)
        \/ Match(s.excludePatterns[i], Base(path))
        \/ Contains(path, s.excludePatterns[i])

\* C20: when Scan returns, an entry that is not a directory and for which
\* the callback was called is in the result exactly when its base name is a
\* supported file name, the include patterns are empty or one of them
\* matches its path or base name, and no exclude pattern matches its path,
\* matches its base name or is a substring of its path; the result holds
\* nothing else, and each file once, in walk order
C20_ResultIsTheFilter ==
    ScanReturned =>
        /\ \A k \in 1..Len(walk) :
              (~walk[k].isDir /\ Reached(k)) =>
                  (InSeq(walk[k].path, ScanResult)
                      <=> /\ NameSupported(scanners[1], walk[k].path)
                          /\ SomeIncludeMatches(scanners[1], walk[k].path)
                          /\ ~SomeExcludeMatches(scanners[1], walk[k].path))
        /\ \A i \in 1..Len(ScanResult) :
              \E k \in 1..Len(walk) :
                  ~walk[k].isDir /\ Reached(k) /\ walk[k].path = ScanResult[i]
        /\ \A i, j \in 1..Len(ScanResult) :
              i # j => ScanResult[i] # ScanResult[j]

\* a scan with an include and an exclude pattern that returns one file and
\* leaves out another, of a supported name and included, only because the
\* exclude pattern is a substring of its path
C20_Witness ==
    /\ ScanReturned
    /\ Len(scanners[1].includePatterns) = 1
    /\ Len(scanners[1].excludePatterns) = 1
    /\ ScanResult # <<>>
    /\ \E k \in 1..Len(walk) :
          /\ ~walk[k].isDir /\ Reached(k)
          /\ NameSupported(scanners[1], walk[k].path)
          /\ SomeIncludeMatches(scanners[1], walk[k].path)
          /\ ~Match(scanners[1].excludePatterns[1], walk[k].path)
          /\ ~Match(scanners[1].excludePatterns[1], Base(walk[k].path))
          /\ Contains(walk[k].path, scanners[1].excludePatterns[1])
          /\ ~InSeq(walk[k].path, ScanResult)

\* ------------------------------------- the check command's default wiring
\* NewFileSystemScanner: the names looked for when none are given
NewFileSystemScanner(supportedFiles) ==
    FileSystemScanner(IF Len(supportedFiles) = 0
                         THEN << <<".", "t", "r", "y", "v", "i", "-", "i", "g", "n", "o", "r", "e">>,
                                 <<"s", "u", "p", "p", "r", "e", "s", "s", "i", "o", "n", "s", ".", "x", "m", "l">>,
                                 <<".", "s", "u", "p", "p", "r", "e", "s", "s", "-", "i", "g", "n", "o", "r", "e">> >>
                         ELSE supportedFiles,
                      <<>>, <<>>)

\* strings.HasSuffix
HasSuffix(str, suffix) ==
    /\ Len(str) >= Len(suffix)
    /\ SubSeq(str, Len(str) - Len(suffix) + 1, Len(str)) = suffix

\* TryviParser.CanParse
TryviCanParse(filePath) == Base(filePath) = <<".", "t", "r", "y", "v", "i", "-", "i", "g", "n", "o", "r", "e">>

\* OwaspParser.CanParse; hasOwaspNamespace is what the content of the file
\* makes of the namespace test
OwaspCanParse(filePath, hasOwaspNamespace) ==
    LET fileName == Base(filePath)
    IN  \/ fileName \in { <<"d", "e", "p", "e", "n", "d", "e", "n", "c", "y", "-", "c", "h", "e", "c", "k", "-", "s", "u", "p", "p", "r", "e", "s", "s", "i", "o", "n", "s", ".", "x", "m", "l">>,
                          <<"o", "w", "a", "s", "p", "-", "s", "u", "p", "p", "r", "e", "s", "s", "i", "o", "n", "s", ".", "x", "m", "l">>,
                          <<"o", "w", "a", "s", "p", "-", "d", "e", "p", "e", "n", "d", "e", "n", "c", "y", "-", "c", "h", "e", "c", "k", "-", "s", "u", "p", "p", "r", "e", "s", "s", "i", "o", "n", "s", ".", "x", "m", "l">> }
        \/ /\ \/ HasSuffix(fileName, <<"-", "s", "u", "p", "p", "r", "e", "s", "s", "i", "o", "n", "s", ".", "x", "m", "l">>)
              \/ HasSuffix(fileName, <<"_", "s", "u", "p", "p", "r", "e", "s", "s", "i", "o", "n", "s", ".", "x", "m", "l">>)
           /\ hasOwaspNamespace

\* the nodes of the tree the command is run on, in the order of the walk: a
\* .git directory with a file, and the file names the README lists, one of
\* them in a directory d
CheckUniverse ==
    LET root == <<"/", "r">>
        git  == Join(root, <<".", "g", "i", "t">>)
        d    == Join(root, <<"d">>)
    IN  << Node(git, TRUE, TRUE),
           Node(Join(git, <<".", "t", "r", "y", "v", "i", "-", "i", "g", "n", "o", "r", "e">>), FALSE, TRUE),
           Node(Join(root, <<".", "s", "u", "p", "p", "r", "e", "s", "s", "-", "i", "g", "n", "o", "r", "e">>), FALSE, TRUE),
           Node(Join(root, <<".", "t", "r", "y", "v", "i", "-", "i", "g", "n", "o", "r", "e">>), FALSE, TRUE),
           Node(d, TRUE, TRUE),
           Node(Join(d, <<"o", "w", "a", "s", "p", "-", "s", "u", "p", "p", "r", "e", "s", "s", "i", "o", "n", "s", ".", "x", "m", "l">>), FALSE, TRUE),
           Node(Join(root, <<"d", "e", "p", "e", "n", "d", "e", "n", "c", "y", "-", "c", "h", "e", "c", "k", "-", "s", "u", "p", "p", "r", "e", "s", "s", "i", "o", "n", "s", ".", "x", "m", "l">>), FALSE, TRUE),
           Node(Join(root, <<"o", "w", "a", "s", "p", "-", "s", "u", "p", "p", "r", "e", "s", "s", "i", "o", "n", "s", ".", "x", "m", "l">>), FALSE, TRUE),
           Node(Join(root, <<"s", "u", "p", "p", "r", "e", "s", "s", "i", "o", "n", "s", ".", "x", "m", "l">>), FALSE, TRUE) >>

CheckTrees ==
    {<<Entry(<<"/", "r">>, TRUE, FALSE)>> \o Visits(CheckUniverse, chosen, 1) :
        chosen \in {c \in SUBSET (1..Len(CheckUniverse)) : Closed(CheckUniverse, c)}}

\* setupAuditor without include and exclude flags, then Audit: one scanner
\* for the default names, the tryvi parser before the OWASP parser, the
\* expiry validator; Scan has just been called on the root
InitCheck ==
    /\ scope = ParseScope
    /\ scanners = <<NewFileSystemScanner(<<>>)>>
    /\ parsers = <<"tryvi-ignore", "owasp">>
    /\ validators = <<"expiry">>
    /\ notifiers = <<>>
    /\ pc = "Scan"
    /\ config = NoConfig
    /\ ctxDone = FALSE
    /\ report = EmptyReport
    /\ si = 1
    /\ walk \in CheckTrees \cup {<<>>}
    /\ wi = 0 /\ foundFiles = <<>> /\ allFiles = <<>>
    /\ fi = 0 /\ suppressionFiles = <<>>
    /\ validatorsToRun = <<>> /\ vi = 0 /\ sk = 0
    /\ issues = <<>> /\ allIssues = <<>>
    /\ notifiersToUse = <<>> /\ ni = 0
    /\ retReport = <<>> /\ retErr = ""
    /\ calls = <<>>
    /\ cancelAt = NotCancelled

\* the walk of the only scanner is through: scanFiles returns its files to
\* Audit, which calls parseFiles
CheckScanned ==
    /\ pc = "WalkDirFunc" /\ wi > Len(walk)
    /\ calls' = Append(calls, Call("ScanRet", si, "", foundFiles))
    /\ allFiles' = AppendUnique(allFiles, foundFiles)
    /\ si' = si + 1
    /\ pc' = "parseFiles"
    /\ UNCHANGED <<registries, config, ctxDone, report, walk, wi, foundFiles,
                   parseVars, validVars, notifVars, retVars, cancelAt>>

\* one iteration of the loop of parseFiles with the two parsers: the first
\* whose CanParse accepts the file parses it; parsed is whether its content
\* parses (to no Suppression here)
CheckParseFile(hasOwaspNamespace, parsed) ==
    /\ pc = "parseLoop" /\ fi <= Len(allFiles)
    /\ LET filePath == allFiles[fi]
           canParse == <<TryviCanParse(filePath),
                         OwaspCanParse(filePath, hasOwaspNamespace)>>
           parser   == findParserForFile(canParse)
       IN  IF parser = 0
              THEN /\ calls' = calls \o CanParseCalls(filePath, canParse, 0)
                   /\ fi' = fi + 1
                   /\ UNCHANGED <<pc, suppressionFiles, retVars>>
              ELSE /\ calls' = calls \o CanParseCalls(filePath, canParse, parser)
                                 \o <<Call("Parse", parser, filePath, <<parsed>>)>>
                   /\ IF ~parsed
                         THEN /\ Fail("failed to parse file")
                              /\ UNCHANGED <<fi, suppressionFiles>>
                         ELSE /\ suppressionFiles' =
                                   Append(suppressionFiles,
                                          SuppressionFile(filePath, <<>>))
                              /\ fi' = fi + 1
                              /\ UNCHANGED <<pc, retVars>>
    /\ UNCHANGED <<registries, config, ctxDone, report, scanVars,
                   validVars, notifVars, cancelAt>>

NextCheck ==
    \/ ScanStat
    \/ WalkDirFunc
    \/ CheckScanned
    \/ parseFiles
    \/ \E hasOwaspNamespace, parsed \in BOOLEAN :
          CheckParseFile(hasOwaspNamespace, parsed)
    \/ AuditParsed

SpecCheck == InitCheck /\ [][NextCheck]_vars

\* the names the README lists as supported
ReadmeNames ==
    { <<"d", "e", "p", "e", "n", "d", "e", "n", "c", "y", "-", "c", "h", "e", "c", "k", "-", "s", "u", "p", "p", "r", "e", "s", "s", "i", "o", "n", "s", ".", "x", "m", "l">>,
      <<"o", "w", "a", "s", "p", "-", "s", "u", "p", "p", "r", "e", "s", "s", "i", "o", "n", "s", ".", "x", "m", "l">>,
      <<"s", "u", "p", "p", "r", "e", "s", "s", "i", "o", "n", "s", ".", "x", "m", "l">>,
      <<".", "t", "r", "y", "v", "i", "-", "i", "g", "n", "o", "r", "e">>,
      <<".", "s", "u", "p", "p", "r", "e", "s", "s", "-", "i", "g", "n", "o", "r", "e">> }

\* Audit has the parsed files in its report
CheckParsed == pc \in {"validateSuppressions", "notify"} /\ walk # <<>>

\* the files of the tree with a name of the README, outside the directories
\* the scanner never enters
ReadmeFiles ==
    {k \in 1..Len(walk) :
        /\ ~walk[k].isDir
        /\ Base(walk[k].path) \in ReadmeNames
        /\ k \notin BelowWellKnownDir}

\* C21: with the default wiring every file with a name of the README's list
\* outside an excluded directory is found by the scanner, accepted by one
\* of the two parsers and is one of the report's parsed files
C21_ReadmeNamesParsed ==
    CheckParsed =>
        \A k \in ReadmeFiles :
            /\ InSeq(walk[k].path, allFiles)
            /\ \E c \in 1..Len(calls) :
                  /\ calls[c].op = "Parse"
                  /\ calls[c].path = walk[k].path
            /\ \E f \in 1..Len(report.FilesScanned) :
                  report.FilesScanned[f].Path = walk[k].path

\* ------------------------------------- several validators, several files
\* the files parseFiles returned: up to MaxFound files of different paths,
\* each with up to MaxSupps entries
ParsedFiles ==
    {[k \in 1..Len(paths) |-> SuppressionFile(paths[k], entries[k])] :
        <<paths, entries>> \in
            {t \in SeqsUpTo(Paths, MaxFound)
                       \X SeqsUpTo(SeqsUpTo(Entries, MaxSupps), MaxFound) :
                /\ Len(t[1]) = Len(t[2])
                /\ Len(t[1]) >= 1
                /\ \A i, j \in 1..Len(t[1]) : i # j => t[1][i] # t[1][j]}}

\* parseFiles has returned the files to Audit; up to MaxValidators
\* validators are registered and the filter is empty
InitOrder ==
    /\ scope = ValidateScope
    /\ scanners = <<1>> /\ parsers = <<1>>
    /\ validators \in SeqsUpTo(ValidatorTypeNames, MaxValidators) \ {<<>>}
    /\ notifiers = <<>>
    /\ pc = "parseLoop"
    /\ config = [DryRun |-> TRUE, ValidatorTypes |-> <<>>, NotifierTypes |-> <<>>]
    /\ ctxDone = FALSE
    /\ report = EmptyReport
    /\ si = 2 /\ walk = <<>> /\ wi = 0 /\ foundFiles = <<>>
    /\ suppressionFiles \in ParsedFiles
    /\ allFiles = [k \in 1..Len(suppressionFiles) |-> suppressionFiles[k].Path]
    /\ fi = Len(suppressionFiles) + 1
    /\ validatorsToRun = <<>> /\ vi = 0 /\ sk = 0
    /\ issues = <<>> /\ allIssues = <<>>
    /\ notifiersToUse = <<>> /\ ni = 0
    /\ retReport = <<>> /\ retErr = ""
    /\ calls = <<>>
    /\ cancelAt = NotCancelled

NextOrder ==
    AuditParsed \/ Validate \/ ValidateNext \/ ValidateReturn \/ AuditValidated

SpecOrder == InitOrder /\ [][NextOrder]_vars

\* Audit has the issues in its report
IssuesReported == pc = "notify" /\ Len(report.FilesScanned) > 0

\* the position among the parsed files of the file an issue is about
FileOf(issue) ==
    CHOOSE f \in 1..Len(report.FilesScanned) :
        report.FilesScanned[f].Path = issue.Suppression.FilePath

\* C22 as stated: the issues of the report are ordered by file first: an
\* issue about an earlier parsed file never comes after an issue about a
\* later one, whichever validators raised them
C22_FileFirst ==
    IssuesReported =>
        \A i, j \in 1..Len(report.Issues) :
            i < j => FileOf(report.Issues[i]) <= FileOf(report.Issues[j])

\* an issue list in the order of the files and, within a file, of the
\* Suppressions
FileThenSuppression(list) ==
    \A i, j \in 1..Len(list) :
        i < j =>
            \/ FileOf(list[i]) < FileOf(list[j])
            \/ /\ FileOf(list[i]) = FileOf(list[j])
               /\ list[i].Suppression.LineNumber <= list[j].Suppression.LineNumber

\* C22 amended: the issues of the report are ordered by validator first:
\* they are the lists the validators returned, in the order the validators
\* ran, and within one validator's list the issues follow the order of the
\* files and then of the Suppressions; nothing is re-sorted
C22_ValidatorFirst ==
    IssuesReported =>
        /\ report.Issues = Returned(calls)
        /\ \A c \in 1..Len(calls) :
              calls[c].op = "ValidateRet" => FileThenSuppression(calls[c].val)

\* two validators over two files with an issue each: the first validator's
\* issue about the second file comes before the second validator's issue
\* about the first file
C22_Witness ==
    /\ IssuesReported
    /\ Len(validatorsToRun) = 2
    /\ Len(report.FilesScanned) = 2
    /\ \E i, j \in 1..Len(report.Issues) :
          /\ i < j
          /\ FileOf(report.Issues[i]) = 2
          /\ FileOf(report.Issues[j]) = 1

\* the calls of one operation made to component who
CallsTo(op, who) ==
    {c \in 1..Len(calls) : calls[c].op = op /\ calls[c].who = who}

NextOrderCancel == NextOrder \/ Cancel

SpecOrderCancel == InitOrder /\ [][NextOrderCancel]_vars

RECURSIVE IssuesOfFirst(_, _)
\* the issues of the first n of the Suppressions, in order
IssuesOfFirst(suppressions, n) ==
    IF n = 0 THEN <<>>
    ELSE IssuesOfFirst(suppressions, n - 1)
            \o validateSuppression(currentTime, suppressions[n])

\* the calls in which Validate returned the cancellation error
ValidateErrors == {c \in 1..Len(calls) : calls[c].op = "ValidateErr"}

\* C24: Validate looks at the context before each Suppression.  Once the
\* context is cancelled while a validator has Suppressions left, no further
\* Suppression is validated by it; it returns the cancellation error, and
\* with it exactly the issues of the Suppressions it validated before, the
\* first k-1 in file order and then declaration order when the k-th was
\* next
C24_CancelledValidateReturnsPrefix ==
    /\ (ctxDone /\ cancelAt.pc = "Validate" /\ cancelAt.checks > 0
            /\ pc \in {"Validate", "validateSuppressions"}) =>
          RemainingChecks = cancelAt.checks
    /\ \A c \in ValidateErrors :
          /\ c = Len(calls)
          /\ pc = "done" /\ retErr = "context canceled"
          /\ sk < Len(Flatten(suppressionFiles))
          /\ calls[c].who = validatorsToRun[vi]
          /\ calls[c].val = IssuesOfFirst(Flatten(suppressionFiles), sk)
    /\ (pc = "Validate" /\ ~ctxDone) =>
          issues = IssuesOfFirst(Flatten(suppressionFiles), sk)

\* the context was cancelled after the only Suppression of the first file
\* and before the first of the second: Validate returned the error with the
\* issues of the first file's Suppression
C24_Witness ==
    /\ ValidateErrors # {}
    /\ Len(suppressionFiles) = 2
    /\ Len(suppressionFiles[1].Suppressions) = 1
    /\ Len(suppressionFiles[2].Suppressions) >= 1
    /\ sk = 1
    /\ calls[Len(calls)].val # <<>>
    /\ \A i \in 1..Len(calls[Len(calls)].val) :
          calls[Len(calls)].val[i].Suppression.FilePath = suppressionFiles[1].Path

\* ----------------------------------------------- errors during the walk
\* the nodes of a tree with directories that cannot be read, in the order
\* of the walk: a file, an unreadable directory, and a directory with a
\* file, an unreadable directory and another file
ErrorUniverse(root) ==
    LET d == Join(root, <<"d">>)
    IN  << Node(Join(root, <<"a", ".", "x">>), FALSE, TRUE),
           Node(Join(root, <<"c">>), TRUE, FALSE),
           Node(d, TRUE, TRUE),
           Node(Join(d, <<"a", ".", "x">>), FALSE, TRUE),
           Node(Join(d, <<"b">>), TRUE, FALSE),
           Node(Join(d, <<"b", ".", "y">>), FALSE, TRUE) >>

\* the calls WalkDir makes for a tree: for a root that can be read, the
\* root and then the nodes; for a root whose listing fails (it vanished or
\* cannot be read), the root, the root again with the error, and then the
\* nodes that were listed before the failure; for a root that Lstat fails
\* on, the root with the error alone
ErrorTrees ==
    UNION {
        LET nodes == ErrorUniverse(root)
            sets  == {c \in SUBSET (1..Len(nodes)) : Closed(nodes, c)}
        IN  {<<Entry(root, TRUE, FALSE)>> \o Visits(nodes, c, 1) : c \in sets}
                \cup {<<Entry(root, TRUE, FALSE), Entry(root, TRUE, TRUE)>>
                          \o Visits(nodes, c, 1) : c \in sets}
                \cup {<<Entry(root, TRUE, TRUE)>>}
        : root \in Roots }

\* Scan is called on a scanner without patterns
InitScanErrors ==
    /\ scope = ScanScope
    /\ scanners \in {<<NewFileSystemScanner(f)>> : f \in SupportedFileLists \cup {<<>>}}
    /\ parsers = <<>> /\ validators = <<>> /\ notifiers = <<>>
    /\ pc = "Scan"
    /\ config = NoConfig
    /\ ctxDone = FALSE
    /\ report = EmptyReport
    /\ si = 1
    /\ walk \in ErrorTrees
    /\ wi = 0 /\ foundFiles = <<>> /\ allFiles = <<>>
    /\ fi = 0 /\ suppressionFiles = <<>>
    /\ validatorsToRun = <<>> /\ vi = 0 /\ sk = 0
    /\ issues = <<>> /\ allIssues = <<>>
    /\ notifiersToUse = <<>> /\ ni = 0
    /\ retReport = <<>> /\ retErr = ""
    /\ calls = <<>>
    /\ cancelAt = NotCancelled

SpecScanErrors == InitScanErrors /\ [][NextScan]_vars

\* WalkDir reported an error for the root
RootFailed ==
    \E k \in 1..Len(walk) : walk[k].err /\ walk[k].path = walk[1].path

\* WalkDir reported an error for an entry below the root
EntryFailed ==
    \E k \in 1..Len(walk) : walk[k].err /\ walk[k].path # walk[1].path

\* the files of the tree a scanner without patterns is looking for
Matching ==
    {k \in 1..Len(walk) :
        /\ ~walk[k].isDir
        /\ NameSupported(scanners[1], walk[k].path)
        /\ k \notin BelowWellKnownDir}

\* C25: an error reported for an entry below the root skips that entry, and
\* Scan still returns every other matching file; an error reported for the
\* root itself during the walk makes Scan return an error and no result
C25_EntryErrorsSkippedRootFatal ==
    /\ (pc = "done" /\ ~ctxDone /\ ~RootFailed) =>
          /\ ScanReturned
          /\ \A k \in Matching : InSeq(walk[k].path, ScanResult)
    /\ (pc = "done" /\ RootFailed) => retErr # "" /\ retReport = <<>>

\* ------------------------------------------------- the webhook notifier
MaxTeamsCalls == 3

\* strings.HasPrefix
HasPrefix(str, prefix) ==
    /\ Len(str) >= Len(prefix)
    /\ SubSeq(str, 1, Len(prefix)) = prefix

\* NewTeamsNotifier: the notifier holds its webhook URL (its HTTP client is
\* the environment of sendTeamsMessage)
TeamsNotifier(webhookURL) == [webhookURL |-> webhookURL]

\* IsConfigured that accepts any URL that is not empty
IsConfiguredNotEmpty(n) == n.webhookURL # <<>>

\* TeamsNotifier.IsConfigured
IsConfigured(n) ==
    n.webhookURL # <<>> /\ HasPrefix(n.webhookURL, <<"h", "t", "t", "p", "s", ":", "/", "/">>)

\* the URLs a notifier is given: none, the scheme alone, a secure URL, one
\* that http.NewRequest cannot parse, and URLs that are not secure
WebhookURLs ==
    { <<>>,
      <<"h", "t", "t", "p", "s", ":", "/", "/">>,
      <<"h", "t", "t", "p", "s", ":", "/", "/", "h">>,
      <<"h", "t", "t", "p", "s", ":", "/", "/", "%">>,
      <<"h", "t", "t", "p", ":", "/", "/", "h">>,
      <<"H", "T", "T", "P", "S", ":", "/", "/", "h">>,
      <<" ", "h", "t", "t", "p", "s", ":", "/", "/", "h">> }

\* http.NewRequestWithContext fails on a URL it cannot parse (here one with
\* a broken escape)
RequestFails(url) == InSeq("%", url)

\* what the HTTP client makes of one request: a transport failure (the
\* timeout and a cancelled context included), or a response with a status
Transport == [ok |-> FALSE, status |-> 0]
Response(status) == [ok |-> TRUE, status |-> status]
Outcomes == {Transport} \cup {Response(c) : c \in {199, 200, 204, 299, 300, 404, 500}}

\* sendTeamsMessage that sends the message again after a failure
sendTeamsMessageRetry(n, first, second) ==
    IF RequestFails(n.webhookURL)
       THEN [posts |-> <<>>, err |-> "failed to create HTTP request"]
    ELSE IF first.ok /\ first.status >= 200 /\ first.status < 300
       THEN [posts |-> <<first>>, err |-> ""]
    ELSE IF ~second.ok
       THEN [posts |-> <<first, second>>, err |-> "failed to send Teams message"]
    ELSE IF second.status < 200 \/ second.status >= 300
       THEN [posts |-> <<first, second>>,
             err |-> "Teams webhook returned error status"]
    ELSE [posts |-> <<first, second>>, err |-> ""]

\* TeamsNotifier.sendTeamsMessage: the requests it sends and the error it
\* returns ("" for nil); first is the outcome of the request, second the
\* outcome a further request would have
sendTeamsMessage(n, first, second) ==
    IF RequestFails(n.webhookURL)
       THEN [posts |-> <<>>, err |-> "failed to create HTTP request"]
    ELSE IF ~first.ok
       THEN [posts |-> <<first>>, err |-> "failed to send Teams message"]
    ELSE IF first.status < 200 \/ first.status >= 300
       THEN [posts |-> <<first>>, err |-> "Teams webhook returned error status"]
    ELSE [posts |-> <<first>>, err |-> ""]

\* a notifier was created with some URL
InitTeams ==
    /\ scope = NotifyScope
    /\ scanners = <<>> /\ parsers = <<>> /\ validators = <<>>
    /\ notifiers \in {<<TeamsNotifier(url)>> : url \in WebhookURLs}
    /\ pc = "TeamsNotifier"
    /\ config = NoConfig
    /\ ctxDone = FALSE
    /\ report = EmptyReport
    /\ si = 0 /\ walk = <<>> /\ wi = 0 /\ foundFiles = <<>> /\ allFiles = <<>>
    /\ fi = 0 /\ suppressionFiles = <<>>
    /\ validatorsToRun = <<>> /\ vi = 0 /\ sk = 0
    /\ issues = <<>> /\ allIssues = <<>>
    /\ notifiersToUse = <<>> /\ ni = 0
    /\ retReport = <<>> /\ retErr = ""
    /\ calls = <<Call("NewTeamsNotifier", 1, notifiers[1].webhookURL, <<>>)>>
    /\ cancelAt = NotCancelled

\* TeamsNotifier.SetWebhookURL
SetWebhookURL(webhookURL) ==
    /\ pc = "TeamsNotifier" /\ Len(calls) <= MaxTeamsCalls
    /\ notifiers' = <<[notifiers[1] EXCEPT !.webhookURL = webhookURL]>>
    /\ calls' = Append(calls, Call("SetWebhookURL", 1, webhookURL, <<>>))
    /\ UNCHANGED <<scope, scanners, parsers, validators, pc, config, ctxDone,
                   report, scanVars, parseVars, validVars, notifVars, retVars,
                   cancelAt>>

\* TeamsNotifier.Notify: the requests sent are logged, then the return
TeamsNotify(first, second) ==
    /\ pc = "TeamsNotifier" /\ Len(calls) <= MaxTeamsCalls
    /\ LET n == notifiers[1]
           sent == sendTeamsMessage(n, first, second)
       IN  calls' =
              IF ~IsConfigured(n)
                 THEN Append(calls, Call("TeamsNotifyRet", 1, n.webhookURL,
                                         <<"Teams notifier not configured">>))
                 ELSE calls
                        \o [k \in 1..Len(sent.posts) |->
                               Call("POST", 1, n.webhookURL, <<sent.posts[k]>>)]
                        \o <<Call("TeamsNotifyRet", 1, n.webhookURL, <<sent.err>>)>>
    /\ UNCHANGED <<registries, pc, config, ctxDone, report, scanVars,
                   parseVars, validVars, notifVars, retVars, cancelAt>>

NextTeams ==
    \/ \E webhookURL \in WebhookURLs : SetWebhookURL(webhookURL)
    \/ \E first, second \in Outcomes : TeamsNotify(first, second)

SpecTeams == InitTeams /\ [][NextTeams]_vars

\* the URL the notifier was given last, by its constructor or by
\* SetWebhookURL
LastURLCall ==
    CHOOSE c \in 1..Len(calls) :
        /\ calls[c].op \in {"NewTeamsNotifier", "SetWebhookURL"}
        /\ \A d \in (c + 1)..Len(calls) :
              calls[d].op \notin {"NewTeamsNotifier", "SetWebhookURL"}
LastURL == calls[LastURLCall].path

\* a URL that is not empty and begins with https://
Secure(url) ==
    /\ url # <<>>
    /\ Len(url) >= 8
    /\ \A i \in 1..8 : url[i] = <<"h", "t", "t", "p", "s", ":", "/", "/">>[i]

\* the returns of Notify
NotifyReturns == {c \in 1..Len(calls) : calls[c].op = "TeamsNotifyRet"}

\* C26: IsConfigured is true exactly when the URL set last (by the
\* constructor or the latest SetWebhookURL) is not empty and begins with
\* https://; a Notify on a notifier that is not configured returns an
\* error and sends no request
C26_ConfiguredIffSecureURL ==
    pc = "TeamsNotifier" =>
        /\ IsConfigured(notifiers[1]) <=> Secure(LastURL)
        /\ \A c \in NotifyReturns :
              ~Secure(calls[c].path) =>
                  /\ calls[c].val # <<"">>
                  /\ calls[c - 1].op # "POST"

\* a notifier created with a secure URL and then given an insecure one is
\* not configured, and its Notify returned an error without a request
C26_Witness ==
    /\ pc = "TeamsNotifier"
    /\ Len(calls) = 3
    /\ calls[1].op = "NewTeamsNotifier" /\ Secure(calls[1].path)
    /\ calls[2].op = "SetWebhookURL"
    /\ calls[2].path = <<"h", "t", "t", "p", ":", "/", "/", "h">>
    /\ calls[3].op = "TeamsNotifyRet"
    /\ calls[3].val = <<"Teams notifier not configured">>
    /\ ~IsConfigured(notifiers[1])

\* C27: one Notify sends at most one POST: a request is never followed by
\* another request of the same call; Notify returns nil exactly when its
\* one request got a response with a status from 200 to 299, and an error
\* on a transport failure, on any other status, and when no request was
\* sent
C27_OnePostNoRetry ==
    pc = "TeamsNotifier" =>
        /\ \A c \in 1..Len(calls) :
              calls[c].op = "POST" =>
                  /\ c < Len(calls)
                  /\ calls[c + 1].op = "TeamsNotifyRet"
        /\ \A c \in NotifyReturns :
              (calls[c].val = <<"">>)
                  <=> /\ calls[c - 1].op = "POST"
                      /\ calls[c - 1].val[1].ok
                      /\ calls[c - 1].val[1].status \in 200..299

\* two Notify calls with one request each: status 299 returned nil, status
\* 300 an error
C27_Witness ==
    /\ pc = "TeamsNotifier"
    /\ Len(calls) = 5
    /\ calls[2].op = "POST" /\ calls[2].val = <<Response(299)>>
    /\ calls[3].op = "TeamsNotifyRet" /\ calls[3].val = <<"">>
    /\ calls[4].op = "POST" /\ calls[4].val = <<Response(300)>>
    /\ calls[5].op = "TeamsNotifyRet"
    /\ calls[5].val = <<"Teams webhook returned error status">>

\* ------------------------------------------------- the report's counters
\* the number of issues of a list with a severity
CountSeverity(list, severity) ==
    Cardinality({i \in 1..Len(list) : list[i].Severity = severity})

\* AuditReport.ErrorCount
ErrorCount(r) == CountSeverity(r.Issues, SeverityError)

\* AuditReport.WarningCount
WarningCount(r) == CountSeverity(r.Issues, SeverityWarning)

\* C28: in every report Audit returns, TotalFiles is the number of
\* FilesScanned, which are the files parsed and not the files discovered,
\* TotalSuppressions is the number of Suppressions of the FilesScanned
\* together, and ErrorCount plus WarningCount is at most the number of
\* issues
C28_ReportCounters ==
    (pc = "done" /\ retErr = "" /\ Len(retReport) = 1) =>
        LET r == retReport[1]
        IN  /\ r.TotalFiles = Len(r.FilesScanned)
            /\ r.FilesScanned = suppressionFiles
            /\ r.TotalFiles <= Len(allFiles)
            /\ r.TotalSuppressions = Len(Flatten(r.FilesScanned))
            /\ ErrorCount(r) + WarningCount(r) <= Len(r.Issues)

\* a report for two discovered files of which one was parsed, with an
\* error and a warning
C28_Witness ==
    /\ pc = "done" /\ retErr = "" /\ Len(retReport) = 1
    /\ Len(allFiles) = 2
    /\ retReport[1].TotalFiles = 1
    /\ retReport[1].TotalSuppressions = 1
    /\ ErrorCount(retReport[1]) = 1
    /\ WarningCount(retReport[1]) = 1

\* ------------------------------------------ the date checks of a record
\* C29: the issues a record gets from its expiration are at most one: one
\* missing-date issue when the expiration is blank, one invalid-date issue
\* when it cannot be parsed, and otherwise one expired issue, one
\* expiring-soon issue or none; after a missing-date or invalid-date issue
\* for the expiration there is no expired or expiring-soon issue, and no
\* record has both an expired and an expiring-soon issue
C29_AtMostOneDateIssue ==
    Validated =>
        LET dated == DateIssues(issues)
        IN  /\ Len(dated) <= 1
            /\ Blank(Record.IgnoreUntil) =>
                  /\ Len(dated) = 1 /\ dated[1].Type = "missing_date"
                  /\ dated[1].Severity = SeverityError
            /\ (~Blank(Record.IgnoreUntil) /\ Parsed = <<>>) =>
                  /\ Len(dated) = 1 /\ dated[1].Type = "invalid_date"
                  /\ dated[1].Severity = SeverityError
            /\ (~Blank(Record.IgnoreUntil) /\ Parsed # <<>>) =>
                  \A i \in 1..Len(dated) :
                      dated[i].Type \in {"expired", "expiring_soon"}
            /\ (Blank(Record.IgnoreUntil) \/ IssuesOfKind("invalid_date") # {}) =>
                  IssuesOfKind("expired") = {} /\ IssuesOfKind("expiring_soon") = {}
            /\ IssuesOfKind("expired") = {} \/ IssuesOfKind("expiring_soon") = {}
            /\ Cardinality(IssuesOfKind("invalid_date")) <= 1

\* a record without a reason whose expiration cannot be parsed: a warning
\* for the reason and, from the date, the invalid-date issue alone
C29_Witness ==
    /\ Validated
    /\ ~Blank(Record.Vulnerability) /\ Blank(Record.Reason)
    /\ ~Blank(Record.IgnoreUntil) /\ Parsed = <<>>
    /\ Len(issues) = 2
    /\ issues[1].Type = "missing_reason"
    /\ issues[2].Type = "invalid_date"

\* the expiration is the reference time or later than it by less than 24
\* hours
WithinComingDay(t) ==
    /\ ~After(currentTime, t)
    /\ WholeDays(t, currentTime) = 0

====
